---- MODULE Spec2Model ----
(***************************************************************************)
(* Model of the Bottlerocket ECS updater: the command driver (sendCommand  *)
(* and its concurrent waiters), the per-host updater (updateInstance),     *)
(* the verifier (verifyUpdate), the drain controller (drainInstance,       *)
(* activateInstance, waitUntilDrained), the eligibility check, the         *)
(* orchestrator loop (_main), the filters of the start of a run            *)
(* (listContainerInstances, filterBottlerocketInstances,                   *)
(* filterAvailableUpdates) and the singleton guard (alreadyRunning).       *)
(*                                                                         *)
(* Remote services (ECS, SSM, EC2) are the environment: every remote call  *)
(* is one atomic step whose outcome is chosen nondeterministically among   *)
(* the outcomes the service can produce.                                   *)
(***************************************************************************)
EXTENDS Integers, Sequences, FiniteSets, TLC

VARIABLES
    \* ---- history of remote calls (ghost) ----
    calls,      \* the sequential remote calls issued so far; _main starts it afresh
                \* for every candidate
    journal,    \* over the whole run: the eligibility verdicts, the state changes
                \* and the sent commands, in the order they happened
    waited,     \* set of <<commandID, instanceID>> given to WaitUntilCommandExecutedWithContext
    logged,     \* set of <<commandID, instanceID>> fetched by logCommmandOutput
    \* ---- sendCommand (one activation) ----
    sPc,        \* "idle" | "send" | "wgWait" | "returned"
    sIDs,       \* instanceIDs argument
    sDoc,       \* ssmDocument argument
    sErr,       \* the local variable err of sendCommand, captured by every waiter closure
    sCmd,       \* commandID (0 = "")
    wPc,        \* per waiter goroutine: "wait" | "check" | "enqueue" | "log" | "done"
    wRes,       \* per waiter (ghost): what its own wait call returned: "none" | "ok" | "fail"
    errChan,    \* buffered channel errChan, capacity Len(sIDs)
    sRet,       \* return value [id, err]
    \* ---- updateInstance / verifyUpdate (one activation) ----
    uPc,        \* position in updateInstance or verifyUpdate, "idle" when neither runs
    uInst,      \* the argument inst
    uCheck,     \* the parsed check output (local check / output)
    uRet,       \* return value [ok, err]; ok is verifyUpdate's bool
    \* ---- _main and the cluster ----
    pc,         \* position in _main's candidate loop
    idx,        \* index of the current candidate
    candidates, \* result of filterAvailableUpdates
    exit,       \* "running" | "ok" (_main returned nil) | "err" (_main returned an error)
    hostState,  \* container instance status in ECS: "ACTIVE" | "DRAINING" | "INACTIVE"
    tasks,      \* tasks running on the current candidate (indexes into StartedByTable)
    taskARNs,   \* the local taskARNs of eligible / waitUntilDrained
    nonSvcAtDrain, \* (ghost) hosts that ran a non-service task when ECS accepted DRAINING
    retEligible, \* (ghost) what eligible returned for the current candidate
    retDrain,   \* (ghost) what drainInstance returned for the current candidate
    retActivate, \* (ghost) what the last activateInstance for the current candidate returned
    \* ---- filterBottlerocketInstances / filterAvailableUpdates (one activation) ----
    pgPc,       \* position in the function, "idle" when neither runs
    pgIn,       \* the argument: container instance ARNs, or the Bottlerocket instances
    pgStart,    \* eachPage: start (0-based, as in the code)
    pgStop,     \* eachPage: stop
    pgPageCount, \* eachPage: pageCount
    pgErrCount, \* errCount of the caller of eachPage
    pgLastErr,  \* lastErr of the caller of eachPage
    pgPos,      \* index of the host of the window whose result is fetched next
    pgCmd,      \* commandID returned by the check send of the window
    pgOut,      \* bottlerocketInstances / candidates built so far
    pgRet,      \* return value [out, err]
    pgSeen,     \* (ghost) per input index, what this call learnt about the host
    attrs,      \* the cluster: attributes of every container instance (list of names)
    \* ---- start of a run: the updater tasks of the family, the listing ----
    gPc,        \* per updater task: position in its start-up
    gRet,       \* per updater task (ghost): what taskDefFamily and alreadyRunning returned
    active,     \* the tasks of the updater's task family that ListTasks reports
    listed,     \* containerInstances of listContainerInstances, then listedInstances
    lPage,      \* pages of ListContainerInstancesPages handed to the callback so far
    stateAtList, \* (ghost) status of every container instance when the listing was made
    reported,   \* (ghost) the hosts whose check output read Available or Ready in
                \* filterAvailableUpdates
    startErr,   \* the error _main returned before its loop, Nil when it did not
    runNo,      \* (ghost) the number of this run of the updater on the cluster
    \* ---- eachPage called on its own ----
    epCaller,   \* the function that calls eachPage and gives it its size
    epLen,      \* eachPage: inputLen
    epSize,     \* eachPage: size
    epWindows,  \* (ghost) the <<start, stop>> of every call of fn, in order
    epRet,      \* return value [returned, count, err] of eachPage
    \* ---- getCommandResult and parseCommandOutput called on their own ----
    crPc,       \* "get": before getCommandResult, "parse": before parseCommandOutput
    crResp,     \* what GetCommandInvocation answers
    crBytes,    \* the bytes given to parseCommandOutput
    crResult,   \* return value [returned, out, err] of getCommandResult
    crParsed,   \* return value [returned, output, err] of parseCommandOutput
    \* ---- the caller of the run ----
    cancelled   \* the caller of the run has asked it to stop

sendVars == <<sPc, sIDs, sDoc, sErr, sCmd, wPc, wRes, errChan, sRet>>
histVars == <<calls, journal, waited, logged>>
updVars  == <<uPc, uInst, uCheck, uRet>>
pageUnitVars == <<epCaller, epLen, epSize, epWindows, epRet>>
resultVars == <<crPc, crResp, crBytes, crResult, crParsed>>
unitVars == <<pageUnitVars, resultVars, cancelled>>
endVars == <<reported, startErr, runNo, unitVars>>
startVars == <<gPc, gRet, active, listed, lPage, stateAtList, endVars>>
runVars  == <<pc, idx, candidates, exit, hostState, tasks, taskARNs, nonSvcAtDrain,
              retEligible, retDrain, retActivate, startVars>>
pageVars == <<pgPc, pgIn, pgStart, pgStop, pgPageCount, pgErrCount, pgLastErr, pgPos, pgCmd,
              pgOut, pgRet, pgSeen, attrs>>

-----------------------------------------------------------------------------
(* Bounds of the model *)

\* largest target list given to sendCommand when it is checked on its own
MaxTargets == 3

\* number of candidates filterAvailableUpdates returned to _main
NumCandidates == 2

\* largest list given to filterBottlerocketInstances or filterAvailableUpdates
MaxInstances == 3

\* window size of the model; it stands for ecsPageSize (100) and ssmPageSize (50)
PageSize == 2
NumUpdaters == 2
ListPageSize == 1
NumRuns == 2

\* largest inputLen given to eachPage when it is checked on its own
MaxInputLen == 102

\* largest size given to eachPage by a caller other than the two filters
MaxSize == 3

\* the values of ecsPageSize and ssmPageSize in the code (lines 19-20)
ecsPageSizeConst == 100
ssmPageSizeConst == 50

-----------------------------------------------------------------------------
(* Errors: an error is the chain of its messages, outermost wrapper first, *)
(* root cause last; the nil error is the empty chain.                      *)

Nil == <<>>

WaitErrNames == <<"wait-1", "wait-2", "wait-3", "wait-4", "wait-5", "wait-6">>

\* the error returned by the wait call of the i-th waiter
WaitError(i) == <<WaitErrNames[i]>>

\* fmt.Errorf("msg: %w", e)
Wrap(msg, e) == <<msg>> \o e

\* errors.Is(e, target) for a root error target
ErrorIs(e, target) == e # Nil /\ target # Nil /\ e[Len(e)] = target[Len(target)]

-----------------------------------------------------------------------------
(* History of remote calls *)

\* api: the remote operation; by: the function that issued it; doc: the SSM
\* document (or the requested status of a state change); ids: the targets;
\* cmd: the command id involved (0 = none); res: the outcome
Call(api, by, doc, ids, cmd, res) ==
    [api |-> api, by |-> by, doc |-> doc, ids |-> ids, cmd |-> cmd, res |-> res]

\* the calls the journal keeps: state changes, sent commands, and the call that
\* settles the verdict of eligible
Journaled(c) ==
    \/ c.api \in {"UpdateContainerInstancesState", "SendCommand"}
    \/ c.by = "eligible" /\ c.res # "listed"

\* the verdict of eligible that a call of eligible settles
Verdict(res) ==
    CASE res = "err"        -> "err"
      [] res = "ineligible" -> "false"
      [] OTHER              -> "true"

JournalEntry(c) ==
    IF c.by = "eligible"
    THEN [api |-> "eligible", doc |-> "", ids |-> c.ids, res |-> Verdict(c.res)]
    ELSE [api |-> c.api, doc |-> c.doc, ids |-> c.ids, res |-> c.res]

\* a remote call is issued
Record(c) ==
    /\ calls' = Append(calls, c)
    /\ journal' = IF Journaled(c) THEN Append(journal, JournalEntry(c)) ELSE journal

\* command ids are fresh: the n-th successful SendCommand returns id n
NextCommandID ==
    Cardinality({k \in 1..Len(journal) :
                    journal[k].api = "SendCommand" /\ journal[k].res = "ok"}) + 1

-----------------------------------------------------------------------------
(* sendCommand: src/unnamed/part_006:420-467 *)

Waiters == 1..Len(sIDs)

SendIdle ==
    /\ sPc = "idle" /\ sIDs = <<>> /\ sDoc = "" /\ sErr = Nil /\ sCmd = 0
    /\ wPc = <<>> /\ wRes = <<>> /\ errChan = <<>>
    /\ sRet = [id |-> 0, err |-> Nil]

\* the caller's side of a call: sendCommand(ids, doc)
CallSendCommand(ids, doc) ==
    /\ sPc = "idle"
    /\ sPc' = "send"
    /\ sIDs' = ids
    /\ sDoc' = doc
    /\ UNCHANGED <<sErr, sCmd, wPc, wRes, errChan, sRet>>

\* the caller's side of the return: the activation record is dropped
ReturnFromSendCommand ==
    /\ sPc = "returned"
    /\ sPc' = "idle" /\ sIDs' = <<>> /\ sDoc' = "" /\ sErr' = Nil /\ sCmd' = 0
    /\ wPc' = <<>> /\ wRes' = <<>> /\ errChan' = <<>>
    /\ sRet' = [id |-> 0, err |-> Nil]

\* lines 421-441: the SendCommand request; on success one goroutine per target
sendCommand_Send ==
    /\ UNCHANGED <<updVars, pageVars, runVars>>
    /\ sPc = "send"
    /\ \/ /\ Record(Call("SendCommand", "sendCommand", sDoc, sIDs, 0, "err"))
          /\ sErr' = <<"send-err">>
          /\ sRet' = [id |-> 0, err |-> Wrap("send command failed", <<"send-err">>)]
          /\ sPc' = "returned"
          /\ UNCHANGED <<sCmd, wPc, wRes, errChan>>
       \/ /\ Record(Call("SendCommand", "sendCommand", sDoc, sIDs, NextCommandID, "ok"))
          /\ sErr' = Nil
          /\ sCmd' = NextCommandID
          /\ wPc' = [i \in Waiters |-> "wait"]
          /\ wRes' = [i \in Waiters |-> "none"]
          /\ errChan' = <<>>
          /\ sPc' = "wgWait"
          /\ UNCHANGED sRet
    /\ UNCHANGED <<sIDs, sDoc, waited, logged>>

\* line 443: err = u.ssm.WaitUntilCommandExecutedWithContext(...)
\* err is the variable of the enclosing function, shared by all waiters
waiter_Wait(i) ==
    /\ UNCHANGED <<updVars, pageVars, runVars>>
    /\ sPc = "wgWait" /\ wPc[i] = "wait"
    /\ \E ok \in BOOLEAN :
          /\ sErr' = IF ok THEN Nil ELSE WaitError(i)
          /\ wRes' = [wRes EXCEPT ![i] = IF ok THEN "ok" ELSE "fail"]
    /\ waited' = waited \cup {<<sCmd, sIDs[i]>>}
    /\ wPc' = [wPc EXCEPT ![i] = "check"]
    /\ UNCHANGED <<calls, journal, logged, sPc, sIDs, sDoc, sCmd, errChan, sRet>>

\* line 449: if err != nil  (reads the shared err)
waiter_Check(i) ==
    /\ UNCHANGED <<updVars, pageVars, runVars>>
    /\ sPc = "wgWait" /\ wPc[i] = "check"
    /\ wPc' = [wPc EXCEPT ![i] = IF sErr # Nil THEN "enqueue" ELSE "done"]
    /\ UNCHANGED <<histVars, sPc, sIDs, sDoc, sErr, sCmd, wRes, errChan, sRet>>

\* line 450: errChan <- err  (reads the shared err again; blocks on a full channel)
waiter_Enqueue(i) ==
    /\ UNCHANGED <<updVars, pageVars, runVars>>
    /\ sPc = "wgWait" /\ wPc[i] = "enqueue"
    /\ Len(errChan) < Len(sIDs)
    /\ errChan' = Append(errChan, sErr)
    /\ wPc' = [wPc EXCEPT ![i] = "log"]
    /\ UNCHANGED <<histVars, sPc, sIDs, sDoc, sErr, sCmd, wRes, sRet>>

\* lines 451-452 and 485-494: u.logCommmandOutput(commandID, instanceID); wg.Done()
waiter_Log(i) ==
    /\ UNCHANGED <<updVars, pageVars, runVars>>
    /\ sPc = "wgWait" /\ wPc[i] = "log"
    /\ logged' = logged \cup {<<sCmd, sIDs[i]>>}
    /\ wPc' = [wPc EXCEPT ![i] = "done"]
    /\ UNCHANGED <<calls, journal, waited, sPc, sIDs, sDoc, sErr, sCmd, wRes, errChan, sRet>>

\* A faulty variant of sendCommand_Collect: the command id is returned with
\* the error.
sendCommand_Collect_KeepsID ==
    /\ UNCHANGED <<updVars, pageVars, runVars>>
    /\ sPc = "wgWait"
    /\ \A i \in Waiters : wPc[i] = "done"
    /\ LET instanceCount == Len(sIDs)
           tooMany == instanceCount > 0 /\ Len(errChan) >= instanceCount
       IN /\ sRet' = IF tooMany
                     THEN [id |-> sCmd,
                           err |-> Wrap("too many failures while awaiting document execution",
                                        errChan[instanceCount])]
                     ELSE [id |-> sCmd, err |-> Nil]
          /\ sErr' = IF tooMany THEN errChan[instanceCount]
                     ELSE IF errChan # <<>> THEN errChan[Len(errChan)] ELSE sErr
    /\ sPc' = "returned"
    /\ UNCHANGED <<histVars, sIDs, sDoc, sCmd, wPc, wRes, errChan>>

\* A faulty variant of sendCommand_Collect: the errors are counted without
\* waiting for the waiters.
sendCommand_Collect_NoWait ==
    /\ UNCHANGED <<updVars, pageVars, runVars>>
    /\ sPc = "wgWait"
    /\ LET instanceCount == Len(sIDs)
           tooMany == instanceCount > 0 /\ Len(errChan) >= instanceCount
       IN /\ sRet' = IF tooMany
                     THEN [id |-> 0,
                           err |-> Wrap("too many failures while awaiting document execution",
                                        errChan[instanceCount])]
                     ELSE [id |-> sCmd, err |-> Nil]
          /\ sErr' = IF tooMany THEN errChan[instanceCount]
                     ELSE IF errChan # <<>> THEN errChan[Len(errChan)] ELSE sErr
    /\ sPc' = "returned"
    /\ UNCHANGED <<histVars, sIDs, sDoc, sCmd, wPc, wRes, errChan>>

\* lines 456-466: wg.Wait(); close(errChan); count the errors
sendCommand_Collect ==
    /\ UNCHANGED <<updVars, pageVars, runVars>>
    /\ sPc = "wgWait"
    /\ \A i \in Waiters : wPc[i] = "done"
    /\ LET instanceCount == Len(sIDs)
           tooMany == instanceCount > 0 /\ Len(errChan) >= instanceCount
       IN /\ sRet' = IF tooMany
                     THEN [id |-> 0,
                           err |-> Wrap("too many failures while awaiting document execution",
                                        errChan[instanceCount])]
                     ELSE [id |-> sCmd, err |-> Nil]
          /\ sErr' = IF tooMany THEN errChan[instanceCount]
                     ELSE IF errChan # <<>> THEN errChan[Len(errChan)] ELSE sErr
    /\ sPc' = "returned"
    /\ UNCHANGED <<histVars, sIDs, sDoc, sCmd, wPc, wRes, errChan>>

sendCommand ==
    \/ sendCommand_Send
    \/ \E i \in Waiters : waiter_Wait(i)
    \/ \E i \in Waiters : waiter_Check(i)
    \/ \E i \in Waiters : waiter_Enqueue(i)
    \/ \E i \in Waiters : waiter_Log(i)
    \/ sendCommand_Collect

-----------------------------------------------------------------------------
(* Command output: src/unnamed/part_006:37-44, 469-482, 505-515 *)

updateStateIdle      == "Idle"
updateStateStaged    == "Staged"
updateStateAvailable == "Available"
updateStateReady     == "Ready"

checkDocument  == "check-document"
applyDocument  == "apply-document"
rebootDocument == "reboot-document"

\* values of update_state and active_partition.image.version in a check output;
\* "" stands for a field that is absent or empty (json.Unmarshal leaves it "")
UpdateStates == {"", updateStateIdle, updateStateStaged, updateStateAvailable,
                 updateStateReady, "Unknown"}
Versions     == {"", "0.0.0", "0.0.1"}

\* the standard output of an invocation: nil, bytes that are no JSON, or a JSON
\* object with the two fields of checkOutput
NilBytes     == [kind |-> "nil", update_state |-> "", version |-> ""]
GarbageBytes == [kind |-> "garbage", update_state |-> "", version |-> ""]
JSONBytes(s, v) == [kind |-> "json", update_state |-> s, version |-> v]
CheckOutputs == {GarbageBytes} \cup {JSONBytes(s, v) : s \in UpdateStates, v \in Versions}

\* responses of GetCommandInvocation
InvocationStatuses  == {"Success", "TimedOut", ""}
TransportFailure    == [err |-> TRUE, status |-> "", stdout |-> NilBytes]
InvocationResponses ==
    {TransportFailure} \cup
    {[err |-> FALSE, status |-> st, stdout |-> o] : st \in InvocationStatuses, o \in CheckOutputs}

\* A faulty variant of getCommandResult: the status is not looked at.
getCommandResult_AnyStatus(resp) ==
    IF resp.err
    THEN [out |-> NilBytes,
          err |-> Wrap("failed to retrieve command invocation output", <<"get-err">>)]
    ELSE [out |-> resp.stdout, err |-> Nil]

\* lines 469-482, after the GetCommandInvocation call returned resp
getCommandResult(resp) ==
    IF resp.err
    THEN [out |-> NilBytes,
          err |-> Wrap("failed to retrieve command invocation output", <<"get-err">>)]
    ELSE IF resp.status # "Success"
    THEN [out |-> NilBytes, err |-> <<"command has not reached success status">>]
    ELSE [out |-> resp.stdout, err |-> Nil]

NoCheck == [UpdateState |-> "", Version |-> ""]

\* A faulty variant of parseCommandOutput: only update_state is mandatory.
parseCommandOutput_StateOnly(commandOutput) ==
    IF commandOutput.kind # "json"
    THEN [output |-> NoCheck, err |-> Wrap("failed to unmarshal json", <<"json-err">>)]
    ELSE LET output == [UpdateState |-> commandOutput.update_state,
                        Version     |-> commandOutput.version]
         IN IF output.UpdateState = ""
            THEN [output |-> output, err |-> <<"mandatory fields are not available">>]
            ELSE [output |-> output, err |-> Nil]

\* lines 505-515
parseCommandOutput(commandOutput) ==
    IF commandOutput.kind # "json"
    THEN [output |-> NoCheck, err |-> Wrap("failed to unmarshal json", <<"json-err">>)]
    ELSE LET output == [UpdateState |-> commandOutput.update_state,
                        Version     |-> commandOutput.version]
         IN IF output.UpdateState = "" \/ output.Version = ""
            THEN [output |-> output, err |-> <<"mandatory fields are not available">>]
            ELSE [output |-> output, err |-> Nil]

InvocationCall(by, inst, cmd, resp) ==
    Call("GetCommandInvocation", by, "", <<inst>>, cmd,
         IF resp.err THEN "err" ELSE resp.status)

-----------------------------------------------------------------------------
(* updateInstance: src/unnamed/part_006:326-386 *)

NoInst == [instanceID |-> 0, containerInstanceID |-> 0, bottlerocketVersion |-> ""]
NoRet  == [ok |-> FALSE, err |-> Nil]

UpdIdle == uPc = "idle" /\ uInst = NoInst /\ uCheck = NoCheck /\ uRet = NoRet

UpdReturn(l, ok, e) == uPc' = l /\ uRet' = [ok |-> ok, err |-> e]

\* lines 331: commandID, err := u.sendCommand(ec2IDs, u.checkDocument)
updateInstance_CheckSend ==
    /\ uPc = "check_send"
    /\ CallSendCommand(<<uInst.instanceID>>, checkDocument)
    /\ uPc' = "check_ret"
    /\ UNCHANGED <<histVars, uInst, uCheck, uRet, runVars, pageVars>>

\* A faulty variant of the switch: the Ready case falls into the apply branch.
updateStateSwitch_ReadyApplies(state) ==
    CASE state = updateStateIdle      -> [pc |-> "u_returned", err |-> Nil]
      [] state = updateStateStaged    ->
            [pc |-> "u_returned", err |-> <<"unexpected update state; skipping instance">>]
      [] state = updateStateAvailable -> [pc |-> "apply_send", err |-> Nil]
      [] state = updateStateReady     -> [pc |-> "apply_send", err |-> Nil]
      [] OTHER                        -> [pc |-> "u_returned", err |-> <<"unknown update state">>]

\* lines 344-360: the switch on check.UpdateState; where it leaves the function
\* (pc "u_returned") it gives the error returned
updateStateSwitch(state) ==
    CASE state = updateStateIdle      -> [pc |-> "u_returned", err |-> Nil]
      [] state = updateStateStaged    ->
            [pc |-> "u_returned", err |-> <<"unexpected update state; skipping instance">>]
      [] state = updateStateAvailable -> [pc |-> "apply_send", err |-> Nil]
      [] state = updateStateReady     -> [pc |-> "reboot_send", err |-> Nil]
      [] OTHER                        -> [pc |-> "u_returned", err |-> <<"unknown update state">>]

\* lines 332-360: the check command returned; fetch and parse its output, then switch
updateInstance_CheckResult ==
    /\ uPc = "check_ret" /\ sPc = "returned"
    /\ ReturnFromSendCommand
    /\ IF sRet.err # Nil
       THEN /\ UpdReturn("u_returned", FALSE, Wrap("failed to send check command", sRet.err))
            /\ UNCHANGED <<calls, journal, uCheck>>
       ELSE \E resp \in InvocationResponses :
              LET r  == getCommandResult(resp)
                  p  == parseCommandOutput(r.out)
                  sw == updateStateSwitch(p.output.UpdateState)
              IN /\ Record(
                        InvocationCall("getCommandResult", uInst.instanceID, sRet.id, resp))
                 /\ IF r.err # Nil
                    THEN /\ UpdReturn("u_returned", FALSE,
                                      Wrap("failed to get check command output", r.err))
                         /\ UNCHANGED uCheck
                    ELSE IF p.err # Nil
                    THEN /\ UpdReturn("u_returned", FALSE,
                                      Wrap("failed to parse command output", p.err))
                         /\ UNCHANGED uCheck
                    ELSE /\ uCheck' = p.output
                         /\ UpdReturn(sw.pc, FALSE, sw.err)
    /\ UNCHANGED <<waited, logged, uInst, runVars, pageVars>>

\* line 352: _, err := u.sendCommand(ec2IDs, u.applyDocument)
updateInstance_ApplySend ==
    /\ uPc = "apply_send"
    /\ CallSendCommand(<<uInst.instanceID>>, applyDocument)
    /\ uPc' = "apply_ret"
    /\ UNCHANGED <<histVars, uInst, uCheck, uRet, runVars, pageVars>>

\* A faulty variant of updateInstance_ApplyResult: a failed apply is not
\* returned, the reboot is sent all the same.
updateInstance_ApplyResult_GoesOn ==
    /\ uPc = "apply_ret" /\ sPc = "returned"
    /\ ReturnFromSendCommand
    /\ UpdReturn("reboot_send", FALSE, Nil)
    /\ UNCHANGED <<histVars, uInst, uCheck, runVars, pageVars>>

\* lines 353-355
updateInstance_ApplyResult ==
    /\ uPc = "apply_ret" /\ sPc = "returned"
    /\ ReturnFromSendCommand
    /\ IF sRet.err # Nil
       THEN UpdReturn("u_returned", FALSE, Wrap("failed to send update apply command", sRet.err))
       ELSE UpdReturn("reboot_send", FALSE, Nil)
    /\ UNCHANGED <<histVars, uInst, uCheck, runVars, pageVars>>

\* A faulty variant of the reboot send: it awaits the command like sendCommand does.
updateInstance_RebootSend_Awaited ==
    /\ uPc = "reboot_send"
    /\ \/ /\ Record(Call("SendCommand", "updateInstance", rebootDocument,
                                         <<uInst.instanceID>>, 0, "err"))
          /\ UpdReturn("u_returned", FALSE, Wrap("failed to send reboot command", <<"send-err">>))
          /\ UNCHANGED waited
       \/ /\ Record(Call("SendCommand", "updateInstance", rebootDocument,
                                         <<uInst.instanceID>>, NextCommandID, "ok"))
          /\ waited' = waited \cup {<<NextCommandID, uInst.instanceID>>}
          /\ UpdReturn("wait_ok", FALSE, Nil)
    /\ UNCHANGED <<logged, sendVars, uInst, uCheck, runVars, pageVars>>

\* lines 365-377: u.ssm.SendCommand is called directly for the reboot document
updateInstance_RebootSend ==
    /\ uPc = "reboot_send"
    /\ \/ /\ Record(Call("SendCommand", "updateInstance", rebootDocument,
                                         <<uInst.instanceID>>, 0, "err"))
          /\ UpdReturn("u_returned", FALSE, Wrap("failed to send reboot command", <<"send-err">>))
       \/ /\ Record(Call("SendCommand", "updateInstance", rebootDocument,
                                         <<uInst.instanceID>>, NextCommandID, "ok"))
          /\ UpdReturn("wait_ok", FALSE, Nil)
    /\ UNCHANGED <<waited, logged, sendVars, uInst, uCheck, runVars, pageVars>>

\* lines 380-385 and 497-502: time.Sleep, then u.waitUntilOk(inst.instanceID)
updateInstance_WaitUntilOk ==
    /\ uPc = "wait_ok"
    /\ \/ /\ Record(Call("WaitUntilInstanceStatusOk", "waitUntilOk", "",
                                         <<uInst.instanceID>>, 0, "err"))
          /\ UpdReturn("u_returned", FALSE,
                       Wrap("failed to reach Ok status after reboot", <<"status-err">>))
       \/ /\ Record(Call("WaitUntilInstanceStatusOk", "waitUntilOk", "",
                                         <<uInst.instanceID>>, 0, "ok"))
          /\ UpdReturn("u_returned", FALSE, Nil)
    /\ UNCHANGED <<waited, logged, sendVars, uInst, uCheck, runVars, pageVars>>

updateInstance ==
    \/ updateInstance_CheckSend
    \/ updateInstance_CheckResult
    \/ updateInstance_ApplySend
    \/ updateInstance_ApplyResult
    \/ updateInstance_RebootSend
    \/ updateInstance_WaitUntilOk

-----------------------------------------------------------------------------
(* verifyUpdate: src/unnamed/part_006:389-418 *)

\* line 393: updateStatus, err := u.sendCommand(ec2IDs, u.checkDocument)
verifyUpdate_Send ==
    /\ uPc = "verify_send"
    /\ CallSendCommand(<<uInst.instanceID>>, checkDocument)
    /\ uPc' = "verify_ret"
    /\ UNCHANGED <<histVars, uInst, uCheck, uRet, runVars, pageVars>>

\* A faulty variant of the comparison: a newer available update counts as not updated.
verifyResult_AvailableIsFailure(output, inst) ==
    IF output.Version = inst.bottlerocketVersion THEN FALSE
    ELSE IF output.UpdateState = updateStateAvailable THEN FALSE
    ELSE TRUE

\* lines 406-417: the bool returned once the output is parsed
verifyResult(output, inst) ==
    IF output.Version = inst.bottlerocketVersion THEN FALSE
    ELSE IF output.UpdateState = updateStateAvailable THEN TRUE
    ELSE TRUE

\* lines 394-417
verifyUpdate_Result ==
    /\ uPc = "verify_ret" /\ sPc = "returned"
    /\ ReturnFromSendCommand
    /\ IF sRet.err # Nil
       THEN /\ UpdReturn("v_returned", FALSE, Wrap("failed to send update check command", sRet.err))
            /\ UNCHANGED <<calls, journal, uCheck>>
       ELSE \E resp \in InvocationResponses :
              LET r == getCommandResult(resp)
                  p == parseCommandOutput(r.out)
              IN /\ Record(
                        InvocationCall("getCommandResult", uInst.instanceID, sRet.id, resp))
                 /\ IF r.err # Nil
                    THEN /\ UpdReturn("v_returned", FALSE,
                                      Wrap("failed to get check command output", r.err))
                         /\ UNCHANGED uCheck
                    ELSE IF p.err # Nil
                    THEN /\ UpdReturn("v_returned", FALSE,
                                      Wrap("failed to parse command output", p.err))
                         /\ UNCHANGED uCheck
                    ELSE /\ uCheck' = p.output
                         /\ UpdReturn("v_returned", verifyResult(p.output, uInst), Nil)
    /\ UNCHANGED <<waited, logged, uInst, runVars, pageVars>>

verifyUpdate ==
    \/ verifyUpdate_Send
    \/ verifyUpdate_Result

-----------------------------------------------------------------------------
(* The cluster: container instances and the tasks running on them *)

\* strings.HasPrefix on strings written as sequences of characters
HasPrefix(str, prefix) ==
    Len(str) >= Len(prefix) /\ SubSeq(str, 1, Len(prefix)) = prefix

ServicePrefix == <<"e", "c", "s", "-", "s", "v", "c", "/">>

\* the started_by values of the tasks of the model; a task is an index into it
StartedByTable ==
    << ServicePrefix \o <<"a", "b", "c">>,
       <<"s", "t", "a", "n", "d", "a", "l", "o", "n", "e">>,
       <<>>,
       <<"e", "c", "s", "-", "s", "v", "c">> >>

StartedBy(t) == StartedByTable[t]

IsServiceTask(t) == HasPrefix(StartedBy(t), ServicePrefix)

\* the tasks other actors run on the candidates during a run
RunTaskKinds == {1, 2}

Hosts == {candidates[k] : k \in 1..Len(candidates)}

\* (ghost) the function has not returned for the current candidate
NotReturned == [returned |-> FALSE, ok |-> FALSE, err |-> Nil, desc |-> {}]
\* (ghost) the function returned (ok, err); desc: the tasks it had described
Returned(ok, err, desc) == [returned |-> TRUE, ok |-> ok, err |-> err, desc |-> desc]

\* the updater tasks of the task family
Updaters == 1..NumUpdaters

\* (ghost) the task has not called taskDefFamily or alreadyRunning
NotGuarded == [family |-> "none", returned |-> FALSE, ok |-> FALSE, err |-> Nil, count |-> 0]

NoPages == [returned |-> FALSE, count |-> 0, err |-> Nil]

PageUnitIdle ==
    /\ epCaller = "" /\ epLen = 0 /\ epSize = 0 /\ epWindows = <<>> /\ epRet = NoPages

NoResponse == [err |-> FALSE, status |-> "none", stdout |-> <<>>]
NoResult == [returned |-> FALSE, out |-> <<>>, err |-> <<>>]
NoParsed == [returned |-> FALSE, output |-> [UpdateState |-> "", Version |-> ""], err |-> <<>>]

ResultIdle ==
    /\ crPc = "idle" /\ crResp = NoResponse /\ crBytes = <<>>
    /\ crResult = NoResult /\ crParsed = NoParsed

UnitIdle == PageUnitIdle /\ ResultIdle /\ cancelled = FALSE

StartIdle ==
    /\ UnitIdle
    /\ gPc = [r \in Updaters |-> "idle"]
    /\ gRet = [r \in Updaters |-> NotGuarded]
    /\ active = {}
    /\ listed = <<>> /\ lPage = 0 /\ stateAtList = <<>>
    /\ reported = {} /\ startErr = Nil /\ runNo = 1

RunIdle ==
    /\ StartIdle
    /\ pc = "idle" /\ idx = 0 /\ candidates = <<>> /\ exit = "running"
    /\ hostState = <<>> /\ tasks = {} /\ taskARNs = {}
    /\ nonSvcAtDrain = {}
    /\ retEligible = NotReturned /\ retDrain = NotReturned /\ retActivate = NotReturned

\* The run observes the tasks of one container instance at a time, the current
\* candidate: tasks is the set running on it. What runs on the other instances
\* is unconstrained, so when the loop reaches a candidate any set may run on it.

\* Another actor (the service scheduler, RunTask, StartTask) starts a task on
\* the current candidate; ECS places no task on a DRAINING or INACTIVE instance.
EnvStartTask(t) ==
    /\ exit = "running" /\ pc # "next" /\ idx \in DOMAIN candidates
    /\ hostState[candidates[idx]] = "ACTIVE"
    /\ t \notin tasks
    /\ tasks' = tasks \cup {t}
    /\ UNCHANGED <<histVars, sendVars, updVars, pageVars, pc, idx, candidates, startVars,
                   retEligible, retDrain, retActivate, exit, hostState, taskARNs,
                   nonSvcAtDrain>>

\* A task of the current candidate stops: it exits, or ECS stops it.
EnvStopTask(t) ==
    /\ exit = "running" /\ pc # "next"
    /\ t \in tasks
    /\ tasks' = tasks \ {t}
    /\ UNCHANGED <<histVars, sendVars, updVars, pageVars, pc, idx, candidates, startVars,
                   retEligible, retDrain, retActivate, exit, hostState, taskARNs,
                   nonSvcAtDrain>>

Env ==
    \/ \E t \in RunTaskKinds : EnvStartTask(t)
    \/ \E t \in RunTaskKinds : EnvStopTask(t)

-----------------------------------------------------------------------------
(* _main's candidate loop: src/unnamed/part_004:86-160 *)

\* the current candidate i (its containerInstanceID and instanceID are one id here)
Cur == candidates[idx]

\* continue: back to the head of `for _, i := range candidates`
Continue == pc' = "next" /\ tasks' = {} /\ UNCHANGED <<idx, exit>>

\* return err
Abort == pc' = "done" /\ exit' = "err" /\ idx' = idx /\ tasks' = {}

\* return nil
Break == pc' = "done" /\ exit' = "ok" /\ idx' = idx /\ tasks' = {}

Goto(l) == pc' = l /\ UNCHANGED <<idx, exit, tasks>>

Step(l) ==
    CASE l = "skip"  -> Continue
      [] l = "abort" -> Abort
      [] l = "break" -> Break
      [] OTHER       -> Goto(l)

StateCall(by, status, h, res) ==
    Call("UpdateContainerInstancesState", by, status, <<h>>, 0, res)

\* A faulty variant of the eligibility branch: a host that is not eligible is drained.
AfterEligible_IgnoresResult(isEligible, err) ==
    IF err # Nil THEN "skip" ELSE "drain"

\* part_004:87-95: what _main does with the result of u.eligible
AfterEligible(isEligible, err) ==
    IF err # Nil THEN "skip"
    ELSE IF ~isEligible THEN "skip"
    ELSE "drain"

\* A faulty variant of the drain branch: a failed drain ends the run instead of
\* moving on to the next candidate.
AfterDrain_StopsRun(err) ==
    IF err # Nil THEN "break" ELSE "apply_send"

\* A faulty variant of the drain branch: the update goes on after a failed drain.
AfterDrain_UpdatesAnyway(err) ==
    "apply_send"

\* part_004:96-101: what _main does with the result of u.drainInstance
AfterDrain(err) ==
    IF err # Nil THEN "skip" ELSE "apply_send"

-----------------------------------------------------------------------------
(* eligible: src/unnamed/part_006:215-244 *)

\* lines 217-227: ListTasks for the container instance
eligible_ListTasks ==
    /\ pc = "eligible"
    /\ \/ /\ Record(Call("ListTasks", "eligible", "", <<Cur>>, 0, "err"))
          /\ Step(AfterEligible(FALSE, Wrap("failed to list tasks", <<"list-err">>)))
          /\ retEligible' = Returned(FALSE, Wrap("failed to list tasks", <<"list-err">>), {})
          /\ UNCHANGED taskARNs
       \/ /\ tasks = {}
          /\ Record(Call("ListTasks", "eligible", "", <<Cur>>, 0, "empty"))
          /\ taskARNs' = {}
          /\ retEligible' = Returned(TRUE, Nil, {})
          /\ Step(AfterEligible(TRUE, Nil))
       \/ /\ tasks # {}
          /\ Record(Call("ListTasks", "eligible", "", <<Cur>>, 0, "listed"))
          /\ taskARNs' = tasks
          /\ Goto("eligible_desc")
          /\ UNCHANGED retEligible
    /\ UNCHANGED <<waited, logged, sendVars, updVars, pageVars, candidates, startVars, retDrain,
                   retActivate, hostState, nonSvcAtDrain>>

\* A faulty variant of the loop: a task without started_by passes.
eligibleResult_EmptyStartedByPasses(descTasks) ==
    \A t \in descTasks : StartedBy(t) = <<>> \/ HasPrefix(StartedBy(t), ServicePrefix)

\* lines 236-243: every described task must have been started by a service
eligibleResult(descTasks) ==
    \A t \in descTasks : HasPrefix(StartedBy(t), ServicePrefix)

\* lines 229-243: DescribeTasks for the listed tasks
eligible_DescribeTasks ==
    /\ pc = "eligible_desc"
    /\ \/ /\ Record(Call("DescribeTasks", "eligible", "", <<Cur>>, 0, "err"))
          /\ retEligible' = Returned(FALSE, Wrap("failed to describe tasks",
                                                 <<"describe-err">>), {})
          /\ Step(AfterEligible(FALSE, Wrap("failed to describe tasks", <<"describe-err">>)))
       \/ /\ Record(Call("DescribeTasks", "eligible", "", <<Cur>>, 0,
                                         IF eligibleResult(taskARNs) THEN "eligible"
                                         ELSE "ineligible"))
          /\ retEligible' = Returned(eligibleResult(taskARNs), Nil, taskARNs)
          /\ Step(AfterEligible(eligibleResult(taskARNs), Nil))
    /\ taskARNs' = {}
    /\ UNCHANGED <<waited, logged, sendVars, updVars, pageVars, candidates, startVars, retDrain,
                   retActivate, hostState, nonSvcAtDrain>>

eligible == eligible_ListTasks \/ eligible_DescribeTasks

-----------------------------------------------------------------------------
(* activateInstance: src/unnamed/part_006:280-298 *)

\* outcomes of UpdateContainerInstancesState(ACTIVE): accepted, a response
\* failure with reason INACTIVE, another response failure, a transport error
ActivateResponses == {"ok", "INACTIVE", "MISSING", "err"}

\* A faulty variant of the response handling: reason INACTIVE is an error too.
activateInstanceResult_InactiveFails(resp) ==
    CASE resp = "err" -> Wrap("failed to change state to ACTIVE", <<"state-err">>)
      [] resp = "ok"  -> Nil
      [] OTHER        -> <<"API failures while activating">>

\* lines 286-297: the error returned for a response
activateInstanceResult(resp) ==
    CASE resp = "err"      -> Wrap("failed to change state to ACTIVE", <<"state-err">>)
      [] resp = "INACTIVE" -> Nil
      [] resp = "ok"       -> Nil
      [] OTHER             -> <<"API failures while activating">>

\* the call at position atPc; onOk and onErr are the caller's continuations
activateInstance(atPc, by, onOk, onErr) ==
    /\ pc = atPc
    /\ \E resp \in ActivateResponses :
          /\ resp = "ok" => hostState[Cur] # "INACTIVE"
          /\ Record(StateCall(by, "ACTIVE", Cur, resp))
          /\ hostState' = [hostState EXCEPT ![Cur] =
                              CASE resp = "ok"       -> "ACTIVE"
                                [] resp = "INACTIVE" -> "INACTIVE"
                                [] OTHER             -> @]
          /\ retActivate' = Returned(activateInstanceResult(resp) = Nil,
                                     activateInstanceResult(resp), {})
          /\ IF activateInstanceResult(resp) = Nil THEN Step(onOk) ELSE Step(onErr)
    /\ UNCHANGED <<waited, logged, sendVars, updVars, pageVars, candidates, startVars,
                   retEligible, taskARNs, nonSvcAtDrain>>

-----------------------------------------------------------------------------
(* drainInstance and waitUntilDrained: src/unnamed/part_006:246-278, 300-323 *)

\* lines 248-265: UpdateContainerInstancesState(DRAINING)
drainInstance_SetDraining ==
    /\ pc = "drain"
    /\ \/ /\ Record(StateCall("drainInstance", "DRAINING", Cur, "err"))
          /\ Step(AfterDrain(Wrap("failed to change instance state to DRAINING",
                                  <<"state-err">>)))
          /\ retDrain' = Returned(FALSE, Wrap("failed to change instance state to DRAINING",
                                              <<"state-err">>), {})
          /\ UNCHANGED <<hostState, nonSvcAtDrain>>
       \/ /\ Record(StateCall("drainInstance", "DRAINING", Cur, "failures"))
          /\ Goto("drain_reactivate")
          /\ UNCHANGED <<hostState, nonSvcAtDrain, retDrain>>
       \/ /\ hostState[Cur] # "INACTIVE"
          /\ Record(StateCall("drainInstance", "DRAINING", Cur, "ok"))
          /\ hostState' = [hostState EXCEPT ![Cur] = "DRAINING"]
          /\ nonSvcAtDrain' = IF \E t \in tasks : ~IsServiceTask(t)
                              THEN nonSvcAtDrain \cup {Cur} ELSE nonSvcAtDrain
          /\ Goto("wait_list")
          /\ UNCHANGED retDrain
    /\ UNCHANGED <<waited, logged, sendVars, updVars, pageVars, candidates, startVars,
                   retEligible, retActivate, taskARNs>>

\* lines 256-264: re-activate after API failures; its error is only logged and
\* drainInstance returns the error of the failures
drainInstance_ReactivateAfterFailures ==
    /\ activateInstance("drain_reactivate", "drainInstance",
                        AfterDrain(<<"failures in API call">>),
                        AfterDrain(<<"failures in API call">>))
    /\ retDrain' = Returned(FALSE, <<"failures in API call">>, {})

\* lines 302-314: ListTasks after the state change
waitUntilDrained_ListTasks ==
    /\ pc = "wait_list"
    /\ \/ /\ Record(Call("ListTasks", "waitUntilDrained", "", <<Cur>>, 0, "err"))
          /\ Goto("wait_reactivate")
          /\ UNCHANGED <<taskARNs, retDrain>>
       \/ /\ tasks = {}
          /\ Record(Call("ListTasks", "waitUntilDrained", "", <<Cur>>, 0, "empty"))
          /\ taskARNs' = {}
          /\ retDrain' = Returned(TRUE, Nil, {})
          /\ Step(AfterDrain(Nil))
       \/ /\ tasks # {}
          /\ Record(Call("ListTasks", "waitUntilDrained", "", <<Cur>>, 0, "listed"))
          /\ taskARNs' = tasks
          /\ Goto("wait_tasks")
          /\ UNCHANGED retDrain
    /\ UNCHANGED <<waited, logged, sendVars, updVars, pageVars, candidates, startVars,
                   retEligible, retActivate, hostState, nonSvcAtDrain>>

\* lines 316-322: WaitUntilTasksStoppedWithContext succeeds once every listed
\* task has stopped; it fails when its attempts run out (or on any error)
waitUntilDrained_Wait ==
    /\ pc = "wait_tasks"
    /\ \/ /\ taskARNs \cap tasks = {}
          /\ Record(Call("WaitUntilTasksStopped", "waitUntilDrained", "",
                                         <<Cur>>, 0, "ok"))
          /\ retDrain' = Returned(TRUE, Nil, {})
          /\ Step(AfterDrain(Nil))
       \/ /\ Record(Call("WaitUntilTasksStopped", "waitUntilDrained", "",
                                         <<Cur>>, 0, "err"))
          /\ Goto("wait_reactivate")
          /\ UNCHANGED retDrain
    /\ taskARNs' = {}
    /\ UNCHANGED <<waited, logged, sendVars, updVars, pageVars, candidates, startVars,
                   retEligible, retActivate, hostState, nonSvcAtDrain>>

\* A faulty variant of the failed wait: the error is returned without
\* re-activating the instance.
drainInstance_ReturnAfterWait ==
    /\ pc = "wait_reactivate"
    /\ Step(AfterDrain(<<"error while waiting to drain">>))
    /\ retDrain' = Returned(FALSE, <<"error while waiting to drain">>, {})
    /\ UNCHANGED <<histVars, sendVars, updVars, pageVars, candidates, startVars, hostState,
                   taskARNs, nonSvcAtDrain, retEligible, retActivate>>

\* lines 267-275: re-activate after a failed wait; its error is only logged and
\* drainInstance returns the error of the wait
drainInstance_ReactivateAfterWait ==
    /\ activateInstance("wait_reactivate", "drainInstance",
                        AfterDrain(<<"error while waiting to drain">>),
                        AfterDrain(<<"error while waiting to drain">>))
    /\ retDrain' = Returned(FALSE, <<"error while waiting to drain">>, {})

drainInstance ==
    \/ drainInstance_SetDraining
    \/ drainInstance_ReactivateAfterFailures
    \/ waitUntilDrained_ListTasks
    \/ waitUntilDrained_Wait
    \/ drainInstance_ReactivateAfterWait

-----------------------------------------------------------------------------
(* the update and verification steps of _main: src/unnamed/part_004:103-160 *)

applyCommand == "apiclient update apply --reboot"
checkCommand == "apiclient update check"

\* lines 103-104: _, err = u.sendCommand(ec2IDs, "apiclient update apply --reboot")
main_SendApply ==
    /\ pc = "apply_send"
    /\ CallSendCommand(<<Cur>>, applyCommand)
    /\ Goto("apply_ret")
    /\ UNCHANGED <<histVars, updVars, pageVars, candidates, startVars, retEligible, retDrain,
                   retActivate, hostState, taskARNs,
                   nonSvcAtDrain>>

\* A faulty variant of main_ApplyResult: the instance is re-activated without
\* waiting for its status.
main_ApplyResult_NoWait ==
    /\ pc = "apply_ret" /\ sPc = "returned"
    /\ ReturnFromSendCommand
    /\ IF sRet.err # Nil THEN Goto("apply_reactivate") ELSE Goto("activate")
    /\ UNCHANGED <<histVars, updVars, pageVars, candidates, startVars, retEligible, retDrain,
                   retActivate, hostState, taskARNs,
                   nonSvcAtDrain>>

\* lines 105-107 and 115
main_ApplyResult ==
    /\ pc = "apply_ret" /\ sPc = "returned"
    /\ ReturnFromSendCommand
    /\ IF sRet.err # Nil THEN Goto("apply_reactivate") ELSE Goto("wait_ok")
    /\ UNCHANGED <<histVars, updVars, pageVars, candidates, startVars, retEligible, retDrain,
                   retActivate, hostState, taskARNs,
                   nonSvcAtDrain>>

\* lines 108-113: re-activate after the failed command; a failure aborts the run
main_ReactivateAfterApply ==
    /\ activateInstance("apply_reactivate", "_main", "skip", "abort")
    /\ UNCHANGED retDrain

\* A faulty variant of main_WaitUntilOk: the verification follows the wait.
main_WaitUntilOk_ThenVerify ==
    /\ pc = "wait_ok"
    /\ \/ /\ Record(Call("WaitUntilInstanceStatusOk", "waitUntilOk", "",
                                         <<Cur>>, 0, "err"))
          /\ Abort
       \/ /\ Record(Call("WaitUntilInstanceStatusOk", "waitUntilOk", "",
                                         <<Cur>>, 0, "ok"))
          /\ Goto("verify_send")
    /\ UNCHANGED <<waited, logged, sendVars, updVars, pageVars, candidates, startVars,
                   retEligible, retDrain, retActivate, hostState, taskARNs, nonSvcAtDrain>>

\* lines 116-119: err = u.waitUntilOk(i.instanceID); a failure aborts the run
main_WaitUntilOk ==
    /\ pc = "wait_ok"
    /\ \/ /\ Record(Call("WaitUntilInstanceStatusOk", "waitUntilOk", "",
                                         <<Cur>>, 0, "err"))
          /\ Abort
       \/ /\ Record(Call("WaitUntilInstanceStatusOk", "waitUntilOk", "",
                                         <<Cur>>, 0, "ok"))
          /\ Goto("activate")
    /\ UNCHANGED <<waited, logged, sendVars, updVars, pageVars, candidates, startVars,
                   retEligible, retDrain, retActivate, hostState, taskARNs, nonSvcAtDrain>>

\* lines 121-125: err = u.activateInstance(i.containerInstanceID); a failure aborts
main_Activate ==
    /\ activateInstance("activate", "_main", "verify_send", "abort")
    /\ UNCHANGED retDrain

\* line 127: updateStatus, err := u.sendCommand(ec2IDs, "apiclient update check")
main_SendCheck ==
    /\ pc = "verify_send"
    /\ CallSendCommand(<<Cur>>, checkCommand)
    /\ Goto("verify_ret")
    /\ UNCHANGED <<histVars, updVars, pageVars, candidates, startVars, retEligible, retDrain,
                   retActivate, hostState, taskARNs,
                   nonSvcAtDrain>>

\* the answers to the verification's GetCommandInvocation: no answer, a
\* command that has not succeeded, output that does not parse, and output
\* that says an update is still available (the instance did not update)
VerifyResponses ==
    {TransportFailure,
     [err |-> FALSE, status |-> "TimedOut", stdout |-> GarbageBytes],
     [err |-> FALSE, status |-> "Success", stdout |-> GarbageBytes],
     [err |-> FALSE, status |-> "Success", stdout |-> JSONBytes(updateStateAvailable, "0.0.0")]}

\* lines 128-159: every outcome of the verification is logged and the loop
\* moves on to the next candidate
main_CheckResult ==
    /\ pc = "verify_ret" /\ sPc = "returned"
    /\ ReturnFromSendCommand
    /\ IF sRet.err # Nil
       THEN UNCHANGED <<calls, journal>>
       ELSE \E resp \in VerifyResponses :
               Record(InvocationCall("getCommandResult", Cur, sRet.id, resp))
    /\ Continue
    /\ UNCHANGED <<waited, logged, updVars, pageVars, candidates, startVars, retEligible,
                   retDrain, retActivate, hostState, taskARNs, nonSvcAtDrain>>

\* line 86: for _, i := range candidates; after the last candidate, line 161:
\* return nil. The history of calls starts afresh with the candidate.
main_Next ==
    /\ pc = "next"
    /\ idx' = idx + 1
    /\ IF idx + 1 > Len(candidates)
       THEN /\ pc' = "done" /\ exit' = "ok" /\ tasks' = {}
            /\ UNCHANGED <<calls, waited, logged, retEligible, retDrain, retActivate>>
       ELSE /\ pc' = "eligible" /\ exit' = exit
            /\ tasks' \in SUBSET RunTaskKinds
            /\ calls' = <<>> /\ waited' = {} /\ logged' = {}
            /\ retEligible' = NotReturned /\ retDrain' = NotReturned
            /\ retActivate' = NotReturned
    /\ UNCHANGED <<journal, sendVars, updVars, pageVars, candidates, startVars, hostState,
                   taskARNs, nonSvcAtDrain>>

main ==
    \/ main_Next
    \/ main_SendApply
    \/ main_ApplyResult
    \/ main_ReactivateAfterApply
    \/ main_WaitUntilOk
    \/ main_Activate
    \/ main_SendCheck
    \/ main_CheckResult

-----------------------------------------------------------------------------
(* eachPage and filterAvailableUpdates: src/unnamed/part_006:149-211 *)

ssmPageSize == PageSize
ecsPageSize == PageSize

NoPageRet == [out |-> <<>>, err |-> Nil]

PageIdle ==
    /\ pgPc = "idle" /\ pgIn = <<>> /\ pgStart = 0 /\ pgStop = 0 /\ pgPageCount = 0
    /\ pgErrCount = 0 /\ pgLastErr = Nil /\ pgPos = 0 /\ pgCmd = 0 /\ pgOut = <<>>
    /\ pgRet = NoPageRet /\ pgSeen = <<>> /\ attrs = <<>>

\* A faulty variant of eachPage_Stop: stop is not cut at inputLen.
eachPage_Stop_Uncut(start, size, inputLen) ==
    start + size

\* lines 152-155: stop := start + size; if stop > inputLen { stop = inputLen }
eachPage_Stop(start, size, inputLen) ==
    IF start + size > inputLen THEN inputLen ELSE start + size

\* A faulty variant of eachPage_Advance: the window is not counted.
eachPage_Advance_Uncounted(size) ==
    /\ pgPageCount' = pgPageCount
    /\ pgStart' = pgStart + size

\* lines 151, 159: the callback returned nil; pageCount++ and start += size
eachPage_Advance(size) ==
    /\ pgPageCount' = pgPageCount + 1
    /\ pgStart' = pgStart + size

\* A faulty variant of InstanceIDs: the window of ids starts at the first id.
InstanceIDs_FromFirst(start, stop) ==
    [k \in 1..(stop - start) |-> pgIn[k].instanceID]

\* instances[start:stop] of the slice of instance ids (lines 168-171)
InstanceIDs(start, stop) ==
    [k \in 1..(stop - start) |-> pgIn[start + k].instanceID]

\* the responses of GetCommandInvocation met while filtering
CheckVersions == {"", "0.0.1"}
CheckResponses ==
    {TransportFailure,
     [err |-> FALSE, status |-> "TimedOut", stdout |-> GarbageBytes],
     [err |-> FALSE, status |-> "Success", stdout |-> GarbageBytes]} \cup
    {[err |-> FALSE, status |-> "Success", stdout |-> JSONBytes(st, v)] :
        st \in UpdateStates, v \in CheckVersions}

\* (ghost) what the call learnt about a host: nothing yet, its window was not
\* sent, its result was not fetched, it did not parse, or the parsed output
NotSeen == [kind |-> "none", output |-> NoCheck]
Seen(kind, output) == [kind |-> kind, output |-> output]

\* lines 176-177: the next window exists; send the check document to it
filterAvailableUpdates_Page ==
    /\ pgPc = "fa_page"
    /\ pgStart < Len(pgIn)
    /\ LET stop == eachPage_Stop(pgStart, ssmPageSize, Len(pgIn))
       IN /\ pgStop' = stop
          /\ CallSendCommand(InstanceIDs(pgStart, stop), checkDocument)
    /\ pgPc' = "fa_send_ret"
    /\ UNCHANGED <<histVars, updVars, runVars, pgIn, pgStart, pgPageCount, pgErrCount,
                   pgLastErr, pgPos, pgCmd, pgOut, pgRet, pgSeen, attrs>>

\* lines 178-184: the result of the send; a failed send is counted and the
\* window is given up
filterAvailableUpdates_SendResult ==
    /\ pgPc = "fa_send_ret" /\ sPc = "returned"
    /\ ReturnFromSendCommand
    /\ IF sRet.err # Nil
       THEN /\ pgErrCount' = pgErrCount + 1
            /\ pgLastErr' = sRet.err
            /\ eachPage_Advance(ssmPageSize)
            /\ pgSeen' = [k \in 1..Len(pgIn) |->
                            IF k > pgStart /\ k <= pgStop THEN Seen("unsent", NoCheck)
                            ELSE pgSeen[k]]
            /\ pgPc' = "fa_page"
            /\ UNCHANGED <<pgCmd, pgPos>>
       ELSE /\ pgCmd' = sRet.id
            /\ pgPos' = pgStart + 1
            /\ pgPc' = "fa_result"
            /\ UNCHANGED <<pgErrCount, pgLastErr, pgPageCount, pgStart, pgSeen>>
    /\ UNCHANGED <<histVars, updVars, runVars, pgIn, pgStop, pgOut, pgRet, attrs>>

\* A faulty variant of the selection: an instance in state Staged is selected.
isCandidate_WithStaged(output) ==
    output.UpdateState \in {updateStateAvailable, updateStateReady, updateStateStaged}

\* line 197
isCandidate(output) ==
    output.UpdateState = updateStateAvailable \/ output.UpdateState = updateStateReady

\* A faulty variant of filterAvailableUpdates_Result: a result that cannot be
\* fetched or parsed ends the window.
filterAvailableUpdates_Result_GivesUpWindow ==
    /\ pgPc = "fa_result"
    /\ pgPos <= pgStop
    /\ \E resp \in CheckResponses :
          LET inst == pgIn[pgPos]
              r    == getCommandResult(resp)
              p    == parseCommandOutput(r.out)
          IN /\ Record(InvocationCall("getCommandResult", inst.instanceID, pgCmd, resp))
             /\ IF r.err # Nil
                THEN /\ pgSeen' = [pgSeen EXCEPT ![pgPos] = Seen("unfetched", NoCheck)]
                     /\ pgPos' = pgStop + 1
                     /\ UNCHANGED pgOut
                ELSE IF p.err # Nil
                THEN /\ pgSeen' = [pgSeen EXCEPT ![pgPos] = Seen("unparsed", NoCheck)]
                     /\ pgPos' = pgStop + 1
                     /\ UNCHANGED pgOut
                ELSE /\ pgSeen' = [pgSeen EXCEPT ![pgPos] = Seen("parsed", p.output)]
                     /\ pgPos' = pgPos + 1
                     /\ pgOut' = IF isCandidate(p.output)
                                 THEN Append(pgOut, [inst EXCEPT !.bottlerocketVersion =
                                                                    p.output.Version])
                                 ELSE pgOut
    /\ UNCHANGED <<waited, logged, sendVars, updVars, runVars, pgPc, pgIn, pgStart, pgStop,
                   pgPageCount, pgErrCount, pgLastErr, pgCmd, pgRet, attrs>>

\* lines 185-201: fetch and parse the result of the next host of the window
filterAvailableUpdates_Result ==
    /\ pgPc = "fa_result"
    /\ pgPos <= pgStop
    /\ \E resp \in CheckResponses :
          LET inst == pgIn[pgPos]
              r    == getCommandResult(resp)
              p    == parseCommandOutput(r.out)
          IN /\ Record(InvocationCall("getCommandResult", inst.instanceID, pgCmd, resp))
             /\ IF r.err # Nil
                THEN /\ pgSeen' = [pgSeen EXCEPT ![pgPos] = Seen("unfetched", NoCheck)]
                     /\ UNCHANGED pgOut
                ELSE IF p.err # Nil
                THEN /\ pgSeen' = [pgSeen EXCEPT ![pgPos] = Seen("unparsed", NoCheck)]
                     /\ UNCHANGED pgOut
                ELSE /\ pgSeen' = [pgSeen EXCEPT ![pgPos] = Seen("parsed", p.output)]
                     /\ pgOut' = IF isCandidate(p.output)
                                 THEN Append(pgOut, [inst EXCEPT !.bottlerocketVersion =
                                                                    p.output.Version])
                                 ELSE pgOut
    /\ pgPos' = pgPos + 1
    /\ UNCHANGED <<waited, logged, sendVars, updVars, runVars, pgPc, pgIn, pgStart, pgStop,
                   pgPageCount, pgErrCount, pgLastErr, pgCmd, pgRet, attrs>>

\* line 202: the callback returns nil after the last host of the window
filterAvailableUpdates_PageDone ==
    /\ pgPc = "fa_result"
    /\ pgPos > pgStop
    /\ eachPage_Advance(ssmPageSize)
    /\ pgPc' = "fa_page"
    /\ UNCHANGED <<histVars, sendVars, updVars, runVars, pgIn, pgStop, pgErrCount, pgLastErr,
                   pgPos, pgCmd, pgOut, pgRet, pgSeen, attrs>>

\* A faulty variant of the final test: one failed window is fatal.
allPagesFailed_AnyFailed(errCount, pageCount) == errCount > 0

\* lines 132 and 207: errCount == pageCount
allPagesFailed(errCount, pageCount) == errCount = pageCount

\* lines 204-210: eachPage returned (its callback never fails)
filterAvailableUpdates_Return ==
    /\ pgPc = "fa_page"
    /\ pgStart >= Len(pgIn)
    /\ pgRet' = IF allPagesFailed(pgErrCount, pgPageCount)
                THEN [out |-> <<>>,
                      err |-> Wrap("all attempts to send SSM document failed", pgLastErr)]
                ELSE [out |-> pgOut, err |-> Nil]
    /\ pgPc' = "fa_returned"
    /\ UNCHANGED <<histVars, sendVars, updVars, runVars, pgIn, pgStart, pgStop, pgPageCount,
                   pgErrCount, pgLastErr, pgPos, pgCmd, pgOut, pgSeen, attrs>>

filterAvailableUpdates ==
    \/ filterAvailableUpdates_Page
    \/ filterAvailableUpdates_SendResult
    \/ filterAvailableUpdates_Result
    \/ filterAvailableUpdates_PageDone
    \/ filterAvailableUpdates_Return

-----------------------------------------------------------------------------
(* filterBottlerocketInstances and containsAttribute: src/unnamed/part_006:100-146 *)

Attr(name, value) == [name |-> name, value |-> value]

markerAttribute == "bottlerocket.variant"

\* the attribute lists of the container instances of the model
AttrLists ==
    { <<>>,
      <<Attr("different-attribute", "")>>,
      <<Attr(markerAttribute, "")>>,
      <<Attr("different-attribute", ""), Attr(markerAttribute, "aws-ecs-1")>>,
      <<Attr("ecs.os-family", markerAttribute)>> }

\* A faulty variant of the search: the value of an attribute is compared too.
RECURSIVE containsAttribute_MatchesValue(_, _)
containsAttribute_MatchesValue(attributes, searchString) ==
    IF attributes = <<>> THEN FALSE
    ELSE IF Head(attributes).name = searchString \/ Head(attributes).value = searchString
    THEN TRUE
    ELSE containsAttribute_MatchesValue(Tail(attributes), searchString)

\* lines 139-146
RECURSIVE containsAttribute(_, _)
containsAttribute(attributes, searchString) ==
    IF attributes = <<>> THEN FALSE
    ELSE IF Head(attributes).name = searchString THEN TRUE
    ELSE containsAttribute(Tail(attributes), searchString)

DescribeErrNames == <<"describe-1", "describe-2", "describe-3", "describe-4",
                      "describe-5", "describe-6">>

\* the error of the DescribeContainerInstances call of the n-th window
DescribeError(n) == <<DescribeErrNames[n]>>

\* instances[start:stop]
ContainerInstanceARNs(start, stop) == [k \in 1..(stop - start) |-> pgIn[start + k]]

\* lines 117-125: the Bottlerocket instances of a response, in its order
RECURSIVE bottlerocketInstancesOf(_)
bottlerocketInstancesOf(described) ==
    IF described = <<>> THEN <<>>
    ELSE LET arn == Head(described)
             rest == bottlerocketInstancesOf(Tail(described))
         IN IF containsAttribute(attrs[arn], markerAttribute)
            THEN <<[instanceID |-> arn, containerInstanceID |-> arn,
                    bottlerocketVersion |-> ""]>> \o rest
            ELSE rest

\* lines 105-127: one window: DescribeContainerInstances fails, or it describes
\* the instances of the window; either way the callback returns nil
filterBottlerocketInstances_Page ==
    /\ pgPc = "fb_page"
    /\ pgStart < Len(pgIn)
    /\ LET stop == eachPage_Stop(pgStart, ecsPageSize, Len(pgIn))
           arns == ContainerInstanceARNs(pgStart, stop)
           mark(kind) == [k \in 1..Len(pgIn) |->
                            IF k > pgStart /\ k <= stop THEN Seen(kind, NoCheck)
                            ELSE pgSeen[k]]
       IN /\ pgStop' = stop
          /\ \/ /\ Record(Call("DescribeContainerInstances", "filterBottlerocketInstances",
                               "", arns, 0, "err"))
                /\ pgErrCount' = pgErrCount + 1
                /\ pgLastErr' = DescribeError(pgPageCount + 1)
                /\ pgSeen' = mark("undescribed")
                /\ UNCHANGED pgOut
             \/ /\ Record(Call("DescribeContainerInstances", "filterBottlerocketInstances",
                               "", arns, 0, "ok"))
                /\ pgOut' = pgOut \o bottlerocketInstancesOf(arns)
                /\ pgSeen' = mark("described")
                /\ UNCHANGED <<pgErrCount, pgLastErr>>
    /\ eachPage_Advance(ecsPageSize)
    /\ UNCHANGED <<waited, logged, sendVars, updVars, runVars, pgPc, pgIn, pgPos, pgCmd,
                   pgRet, attrs>>

\* lines 128-135: eachPage returned (its callback never fails)
filterBottlerocketInstances_Return ==
    /\ pgPc = "fb_page"
    /\ pgStart >= Len(pgIn)
    /\ pgRet' = IF allPagesFailed(pgErrCount, pgPageCount)
                THEN [out |-> <<>>,
                      err |-> Wrap("failed to describe any container instances", pgLastErr)]
                ELSE [out |-> pgOut, err |-> Nil]
    /\ pgPc' = "fb_returned"
    /\ UNCHANGED <<histVars, sendVars, updVars, runVars, pgIn, pgStart, pgStop, pgPageCount,
                   pgErrCount, pgLastErr, pgPos, pgCmd, pgOut, pgSeen, attrs>>

filterBottlerocketInstances ==
    \/ filterBottlerocketInstances_Page
    \/ filterBottlerocketInstances_Return

-----------------------------------------------------------------------------
(* The singleton guard: alreadyRunning, src/unnamed/part_006:65-79, and its
   caller. The start-up of _main that calls taskDefFamily and alreadyRunning
   is not part of the sources under src/ (src/unnamed/part_005 holds the test
   of taskDefFamily only); the caller follows section 4.9 of the
   specification. *)

\* the values of the environment variable TASK_DEFINITION_ARN
TaskDefARNs == {"arn:task-definition/updater-family:1", "", "arn:task-def/updater-family1"}

\* taskDefFamily: the family of a task definition ARN, or an error
taskDefFamily(arn) ==
    IF arn = "arn:task-definition/updater-family:1"
    THEN [family |-> "updater-family", err |-> Nil]
    ELSE IF arn = ""
    THEN [family |-> "", err |-> <<"arn: invalid prefix">>]
    ELSE [family |-> "", err |-> <<"not a task definition arn">>]

\* ECS starts a task of the updater's task definition (the scheduled rule, or
\* an operator); ListTasks reports it from then on
EnvStartUpdater(r) ==
    /\ gPc[r] = "idle"
    /\ gPc' = [gPc EXCEPT ![r] = "family"]
    /\ active' = active \cup {r}
    /\ UNCHANGED <<histVars, sendVars, updVars, pageVars, pc, idx, candidates, exit, hostState,
                   tasks, taskARNs, nonSvcAtDrain, retEligible, retDrain, retActivate,
                   gRet, listed, lPage, stateAtList, endVars>>

\* the process of a task has exited and ECS stops the task
EnvUpdaterStopped(r) ==
    /\ gPc[r] \in {"exit_ok", "exit_err"}
    /\ gPc' = [gPc EXCEPT ![r] = "idle"]
    /\ gRet' = [gRet EXCEPT ![r] = NotGuarded]
    /\ active' = active \ {r}
    /\ UNCHANGED <<histVars, sendVars, updVars, pageVars, pc, idx, candidates, exit, hostState,
                   tasks, taskARNs, nonSvcAtDrain, retEligible, retDrain, retActivate,
                   listed, lPage, stateAtList, endVars>>

\* section 4.9: parse the family out of the ARN of the environment; when the
\* ARN is absent or unparsable the guard is skipped
main_TaskDefFamily(r) ==
    /\ gPc[r] = "family"
    /\ \E arn \in TaskDefARNs :
          IF taskDefFamily(arn).err # Nil
          THEN /\ gPc' = [gPc EXCEPT ![r] = "work"]
               /\ gRet' = [gRet EXCEPT ![r].family = "failed"]
          ELSE /\ gPc' = [gPc EXCEPT ![r] = "guard"]
               /\ gRet' = [gRet EXCEPT ![r].family = "parsed"]
    /\ UNCHANGED <<histVars, sendVars, updVars, pageVars, pc, idx, candidates, exit, hostState,
                   tasks, taskARNs, nonSvcAtDrain, retEligible, retDrain, retActivate,
                   active, listed, lPage, stateAtList, endVars>>

\* A faulty variant of the comparison: one listed task is another run already.
alreadyRunningResult_AtLeastOne(listErr, n) ==
    IF listErr # Nil
    THEN [ok |-> FALSE, err |-> Wrap("failed to list running updater tasks", listErr)]
    ELSE [ok |-> n > 0, err |-> Nil]

\* lines 71-78: the value returned for the outcome of ListTasks
alreadyRunningResult(listErr, n) ==
    IF listErr # Nil
    THEN [ok |-> FALSE, err |-> Wrap("failed to list running updater tasks", listErr)]
    ELSE [ok |-> n > 1, err |-> Nil]

\* lines 65-79: ListTasks with Family fails, or it returns the tasks of the
\* family that ECS reports at this moment
alreadyRunning(r) ==
    /\ gPc[r] = "guard"
    /\ \E listErr \in {Nil, <<"list-err">>} :
          LET n == IF listErr = Nil THEN Cardinality(active) ELSE 0
              ret == alreadyRunningResult(listErr, n)
          IN gRet' = [gRet EXCEPT ![r] = [family |-> "parsed", returned |-> TRUE,
                                           ok |-> ret.ok, err |-> ret.err, count |-> n]]
    /\ gPc' = [gPc EXCEPT ![r] = "guarded"]
    /\ UNCHANGED <<histVars, sendVars, updVars, pageVars, pc, idx, candidates, exit, hostState,
                   tasks, taskARNs, nonSvcAtDrain, retEligible, retDrain, retActivate,
                   active, listed, lPage, stateAtList, endVars>>

\* section 4.9: when the count exceeds one the run exits successfully without
\* performing work. What the caller does with an error of alreadyRunning is
\* not stated: the run goes on, or it returns the error.
main_AfterGuard(r) ==
    /\ gPc[r] = "guarded"
    /\ \E to \in {"exit_ok", "exit_err", "work"} :
          /\ gRet[r].err # Nil => to \in {"work", "exit_err"}
          /\ gRet[r].err = Nil => to = IF gRet[r].ok THEN "exit_ok" ELSE "work"
          /\ gPc' = [gPc EXCEPT ![r] = to]
    /\ UNCHANGED <<histVars, sendVars, updVars, pageVars, pc, idx, candidates, exit, hostState,
                   tasks, taskARNs, nonSvcAtDrain, retEligible, retDrain, retActivate,
                   gRet, active, listed, lPage, stateAtList, endVars>>

\* the run of a task that went on to work on the hosts ends
main_Returns(r) ==
    /\ gPc[r] = "work"
    /\ gPc' = [gPc EXCEPT ![r] = "exit_ok"]
    /\ UNCHANGED <<histVars, sendVars, updVars, pageVars, pc, idx, candidates, exit, hostState,
                   tasks, taskARNs, nonSvcAtDrain, retEligible, retDrain, retActivate,
                   gRet, active, listed, lPage, stateAtList, endVars>>

guard(r) == main_TaskDefFamily(r) \/ alreadyRunning(r) \/ main_AfterGuard(r)

-----------------------------------------------------------------------------
(* listContainerInstances, src/unnamed/part_006:81-96, and the start of _main,
   src/unnamed/part_004:58-84 *)

\* the updater task whose run is followed
Self == 1

\* A faulty variant of the input: no Status, every container instance is listed.
listStatus_None == ""

\* line 86: Status of the ListContainerInstancesInput
listStatus == "ACTIVE"

RECURSIVE WithStatus(_, _)
\* ECS: the container instances 1..n of the cluster whose status is the
\* requested one (all of them when no status is requested), in ARN order
WithStatus(n, status) ==
    IF n = 0 THEN <<>>
    ELSE WithStatus(n - 1, status) \o
         (IF status = "" \/ hostState[n] = status THEN <<n>> ELSE <<>>)

\* the k-th page of a listing
ListPage(all, k) ==
    SubSeq(all, (k - 1) * ListPageSize + 1,
           IF k * ListPageSize > Len(all) THEN Len(all) ELSE k * ListPageSize)

\* line 89: containerInstances = append(containerInstances, output.ContainerInstanceArns...)
accumulate(containerInstances, page) == containerInstances \o page

\* lines 88-93 and _main lines 58-61: the run goes on and requests the next
\* page; the request fails and _main returns the error, or the callback
\* appends the page
listContainerInstances_Page ==
    /\ pc = "list" /\ gPc[Self] = "work"
    /\ LET all == WithStatus(Len(hostState), listStatus)
       IN /\ lPage = 0 \/ lPage * ListPageSize < Len(all)
          /\ stateAtList' = IF lPage = 0 THEN hostState ELSE stateAtList
          /\ \/ /\ Record(Call("ListContainerInstances", "listContainerInstances",
                               listStatus, <<>>, 0, "err"))
                /\ listed' = <<>>
                /\ pc' = "done" /\ exit' = "err"
                /\ startErr' = Wrap("failed to list container instances", <<"list-err">>)
                /\ UNCHANGED lPage
             \/ /\ Record(Call("ListContainerInstances", "listContainerInstances",
                               listStatus, ListPage(all, lPage + 1), 0, "ok"))
                /\ listed' = accumulate(listed, ListPage(all, lPage + 1))
                /\ lPage' = lPage + 1
                /\ UNCHANGED <<pc, exit, startErr>>
    /\ UNCHANGED <<waited, logged, sendVars, updVars, pageVars, idx, candidates, hostState,
                   tasks, taskARNs, nonSvcAtDrain, retEligible, retDrain, retActivate,
                   gPc, gRet, active, reported, runNo, unitVars>>

\* lines 94-95 and _main lines 62-67: no page is left; with no instance _main
\* returns nil, else it calls filterBottlerocketInstances(listedInstances)
listContainerInstances_Return ==
    /\ pc = "list"
    /\ lPage > 0 /\ lPage * ListPageSize >= Len(WithStatus(Len(hostState), listStatus))
    /\ IF Len(listed) = 0
       THEN /\ pc' = "done" /\ exit' = "ok"
            /\ UNCHANGED <<pgPc, pgIn, pgSeen>>
       ELSE /\ pc' = "fb_ret" /\ exit' = exit
            /\ pgPc' = "fb_page"
            /\ pgIn' = listed
            /\ pgSeen' = [k \in 1..Len(listed) |-> NotSeen]
    /\ UNCHANGED <<histVars, sendVars, updVars, idx, candidates, hostState, tasks, taskARNs,
                   nonSvcAtDrain, retEligible, retDrain, retActivate, startVars,
                   pgStart, pgStop, pgPageCount, pgErrCount, pgLastErr, pgPos, pgCmd, pgOut,
                   pgRet, attrs>>

\* _main lines 67-76: filterBottlerocketInstances returned; an error and an
\* empty result end the run, else filterAvailableUpdates(bottlerocketInstances)
main_FilterBottlerocketResult ==
    /\ pc = "fb_ret" /\ pgPc = "fb_returned"
    /\ IF pgRet.err # Nil
       THEN /\ pc' = "done" /\ exit' = "err" /\ startErr' = pgRet.err
            /\ pgPc' = "idle" /\ pgIn' = <<>> /\ pgSeen' = <<>>
       ELSE IF Len(pgRet.out) = 0
       THEN /\ pc' = "done" /\ exit' = "ok" /\ startErr' = startErr
            /\ pgPc' = "idle" /\ pgIn' = <<>> /\ pgSeen' = <<>>
       ELSE /\ pc' = "fa_ret" /\ exit' = exit /\ startErr' = startErr
            /\ pgPc' = "fa_page"
            /\ pgIn' = pgRet.out
            /\ pgSeen' = [k \in 1..Len(pgRet.out) |-> NotSeen]
    /\ pgStart' = 0 /\ pgStop' = 0 /\ pgPageCount' = 0 /\ pgErrCount' = 0
    /\ pgLastErr' = Nil /\ pgPos' = 0 /\ pgCmd' = 0 /\ pgOut' = <<>> /\ pgRet' = NoPageRet
    /\ UNCHANGED <<histVars, sendVars, updVars, idx, candidates, hostState, tasks, taskARNs,
                   nonSvcAtDrain, retEligible, retDrain, retActivate, attrs,
                   gPc, gRet, active, listed, lPage, stateAtList, reported, runNo,
                   unitVars>>

\* (ghost) the inputs of filterAvailableUpdates whose check output was fetched,
\* parsed and read Available or Ready
UpdateReported ==
    {k \in 1..Len(pgIn) :
        /\ pgSeen[k].kind = "parsed"
        /\ pgSeen[k].output.UpdateState \in {"Available", "Ready"}}

\* _main lines 76-86: filterAvailableUpdates returned; an error and an empty
\* result end the run, else the loop over the candidates starts
main_FilterAvailableResult ==
    /\ pc = "fa_ret" /\ pgPc = "fa_returned"
    /\ IF pgRet.err # Nil
       THEN /\ pc' = "done" /\ exit' = "err"
            \* line 78 formats the error with %#v: the cause is not wrapped
            /\ startErr' = <<"failed to check updates">>
            /\ UNCHANGED candidates
       ELSE IF Len(pgRet.out) = 0
       THEN /\ pc' = "done" /\ exit' = "ok"
            /\ UNCHANGED <<candidates, startErr>>
       ELSE /\ pc' = "next" /\ exit' = exit
            /\ candidates' = [k \in 1..Len(pgRet.out) |-> pgRet.out[k].containerInstanceID]
            /\ UNCHANGED startErr
    /\ reported' = {pgIn[k].containerInstanceID : k \in UpdateReported}
    /\ pgPc' = "idle" /\ pgIn' = <<>> /\ pgSeen' = <<>>
    /\ pgStart' = 0 /\ pgStop' = 0 /\ pgPageCount' = 0 /\ pgErrCount' = 0
    /\ pgLastErr' = Nil /\ pgPos' = 0 /\ pgCmd' = 0 /\ pgOut' = <<>> /\ pgRet' = NoPageRet
    /\ UNCHANGED <<histVars, sendVars, updVars, idx, hostState, tasks, taskARNs,
                   nonSvcAtDrain, retEligible, retDrain, retActivate, attrs,
                   gPc, gRet, active, listed, lPage, stateAtList, runNo, unitVars>>

listContainerInstances == listContainerInstances_Page \/ listContainerInstances_Return

main_Start == main_FilterBottlerocketResult \/ main_FilterAvailableResult

-----------------------------------------------------------------------------
(* Specification of one sendCommand call on 0..MaxTargets targets *)

vars == <<calls, journal, waited, logged, sPc, sIDs, sDoc, sErr, sCmd, wPc, wRes, errChan, sRet,
          uPc, uInst, uCheck, uRet,
          pc, idx, candidates, exit, hostState, tasks, taskARNs, nonSvcAtDrain,
          retEligible, retDrain, retActivate,
          pgPc, pgIn, pgStart, pgStop, pgPageCount, pgErrCount, pgLastErr, pgPos, pgCmd,
          pgOut, pgRet, pgSeen, attrs,
          gPc, gRet, active, listed, lPage, stateAtList, reported, startErr, runNo,
          epCaller, epLen, epSize, epWindows, epRet, crPc, crResp, crBytes, crResult, crParsed,
          cancelled>>

InitSend ==
    /\ calls = <<>> /\ journal = <<>> /\ waited = {} /\ logged = {}
    /\ sPc = "send"
    /\ \E n \in 0..MaxTargets : sIDs = [i \in 1..n |-> i]
    /\ sDoc \in {"check", "apply"}
    /\ sErr = Nil /\ sCmd = 0
    /\ wPc = <<>> /\ wRes = <<>> /\ errChan = <<>>
    /\ sRet = [id |-> 0, err |-> Nil]
    /\ UpdIdle
    /\ RunIdle
    /\ PageIdle

NextSend == sendCommand

SpecSend == InitSend /\ [][NextSend]_vars

\* every waiter call returns (it is bounded by its attempts) and the Go
\* scheduler runs every goroutine that can run
FairSpecSend == SpecSend /\ WF_vars(NextSend)

-----------------------------------------------------------------------------
(* Specification of one updateInstance or verifyUpdate call on one instance *)

InitUpd ==
    /\ calls = <<>> /\ journal = <<>> /\ waited = {} /\ logged = {}
    /\ SendIdle
    /\ uPc \in {"check_send", "verify_send"}
    /\ \E v \in Versions :
          uInst = [instanceID |-> 1, containerInstanceID |-> 1, bottlerocketVersion |-> v]
    /\ uCheck = NoCheck
    /\ uRet = NoRet
    /\ RunIdle
    /\ PageIdle

NextUpd == updateInstance \/ verifyUpdate \/ sendCommand

SpecUpd == InitUpd /\ [][NextUpd]_vars

-----------------------------------------------------------------------------
(* Specification of a run of _main over NumCandidates candidates *)

InitRun ==
    /\ StartIdle
    /\ calls = <<>> /\ journal = <<>> /\ waited = {} /\ logged = {}
    /\ SendIdle
    /\ UpdIdle
    /\ pc = "next" /\ idx = 0 /\ exit = "running"
    /\ candidates = [k \in 1..NumCandidates |-> k]
    /\ hostState = [k \in 1..NumCandidates |-> "ACTIVE"]
    /\ tasks = {}
    /\ taskARNs = {}
    /\ nonSvcAtDrain = {}
    /\ retEligible = NotReturned /\ retDrain = NotReturned /\ retActivate = NotReturned
    /\ PageIdle

Program == eligible \/ drainInstance \/ main \/ sendCommand

NextRun == Program \/ Env

SpecRun == InitRun /\ [][NextRun]_vars

\* every remote call returns (the waiters are bounded by their attempts) and
\* the Go scheduler runs every goroutine that can run
FairSpecRun == SpecRun /\ WF_vars(Program)

-----------------------------------------------------------------------------
(* Specification of a run of _main whose caller may ask it to stop.  The
   waiters are given aws.BackgroundContext() (part_006:316, 443) or no context
   at all (part_006:499), and _main takes none: no step of the run reads
   `cancelled` *)

\* the caller cancels: once, at any moment of the run
EnvCancel ==
    /\ ~cancelled
    /\ exit = "running"
    /\ cancelled' = TRUE
    /\ UNCHANGED <<histVars, sendVars, updVars, pageVars, pc, idx, candidates, exit, hostState,
                   tasks, taskARNs, nonSvcAtDrain, retEligible, retDrain, retActivate,
                   gPc, gRet, active, listed, lPage, stateAtList, reported, startErr, runNo,
                   pageUnitVars, resultVars>>

NextCancel == NextRun \/ EnvCancel

SpecCancel == InitRun /\ [][NextCancel]_vars

-----------------------------------------------------------------------------
(* Specification of one filterAvailableUpdates call on 0..MaxInstances hosts *)

InitFilter ==
    /\ calls = <<>> /\ journal = <<>> /\ waited = {} /\ logged = {}
    /\ SendIdle
    /\ UpdIdle
    /\ RunIdle
    /\ pgPc = "fa_page"
    /\ \E n \in 0..MaxInstances :
          /\ pgIn = [k \in 1..n |-> [instanceID |-> k, containerInstanceID |-> k,
                                     bottlerocketVersion |-> ""]]
          /\ pgSeen = [k \in 1..n |-> NotSeen]
    /\ pgStart = 0 /\ pgStop = 0 /\ pgPageCount = 0
    /\ pgErrCount = 0 /\ pgLastErr = Nil /\ pgPos = 0 /\ pgCmd = 0 /\ pgOut = <<>>
    /\ pgRet = NoPageRet /\ attrs = <<>>

NextFilter == filterAvailableUpdates \/ sendCommand

SpecFilter == InitFilter /\ [][NextFilter]_vars

-----------------------------------------------------------------------------
(* Specification of one filterBottlerocketInstances call on 0..MaxInstances
   container instances *)

InitDescribe ==
    /\ calls = <<>> /\ journal = <<>> /\ waited = {} /\ logged = {}
    /\ SendIdle
    /\ UpdIdle
    /\ RunIdle
    /\ pgPc = "fb_page"
    /\ \E n \in 0..MaxInstances :
          /\ pgIn = [k \in 1..n |-> k]
          /\ pgSeen = [k \in 1..n |-> NotSeen]
          /\ attrs \in [1..n -> AttrLists]
    /\ pgStart = 0 /\ pgStop = 0 /\ pgPageCount = 0
    /\ pgErrCount = 0 /\ pgLastErr = Nil /\ pgPos = 0 /\ pgCmd = 0 /\ pgOut = <<>>
    /\ pgRet = NoPageRet

NextDescribe == filterBottlerocketInstances

SpecDescribe == InitDescribe /\ [][NextDescribe]_vars

\* one call of either filter
InitFilters == InitFilter \/ InitDescribe

NextFilters == NextFilter \/ NextDescribe

SpecFilters == InitFilters /\ [][NextFilters]_vars

-----------------------------------------------------------------------------
(* Specification of eligible and drainInstance on one container instance that
   runs any tasks of StartedByTable *)

TaskKinds == DOMAIN StartedByTable

InitHost ==
    /\ StartIdle
    /\ calls = <<>> /\ journal = <<>> /\ waited = {} /\ logged = {}
    /\ SendIdle
    /\ UpdIdle
    /\ PageIdle
    /\ pc = "eligible" /\ idx = 1 /\ exit = "running"
    /\ candidates = <<1>>
    /\ hostState = <<"ACTIVE">>
    /\ tasks \in SUBSET TaskKinds
    /\ taskARNs = {}
    /\ nonSvcAtDrain = {}
    /\ retEligible = NotReturned /\ retDrain = NotReturned /\ retActivate = NotReturned

EnvHost ==
    \/ \E t \in TaskKinds : EnvStartTask(t)
    \/ \E t \in TaskKinds : EnvStopTask(t)

NextHost == eligible \/ drainInstance \/ EnvHost

SpecHost == InitHost /\ [][NextHost]_vars

-----------------------------------------------------------------------------
(* Specification of the start-up of NumUpdaters updater tasks of one task
   family on one cluster *)

InitUpdaters ==
    /\ calls = <<>> /\ journal = <<>> /\ waited = {} /\ logged = {}
    /\ SendIdle
    /\ UpdIdle
    /\ RunIdle
    /\ PageIdle

NextUpdaters ==
    \E r \in Updaters :
        \/ EnvStartUpdater(r)
        \/ guard(r)
        \/ main_Returns(r)
        \/ EnvUpdaterStopped(r)

SpecUpdaters == InitUpdaters /\ [][NextUpdaters]_vars

-----------------------------------------------------------------------------
(* Specification of a whole run of one updater task on a cluster of
   NumCandidates container instances, from its start-up to the end of _main *)

\* the attribute lists of the container instances of the cluster of the run
RunAttrLists == {<<Attr("ecs.os-family", markerAttribute)>>, <<Attr(markerAttribute, "")>>}

InitStart ==
    /\ calls = <<>> /\ journal = <<>> /\ waited = {} /\ logged = {}
    /\ SendIdle
    /\ UpdIdle
    /\ pgPc = "idle" /\ pgIn = <<>> /\ pgStart = 0 /\ pgStop = 0 /\ pgPageCount = 0
    /\ pgErrCount = 0 /\ pgLastErr = Nil /\ pgPos = 0 /\ pgCmd = 0 /\ pgOut = <<>>
    /\ pgRet = NoPageRet /\ pgSeen = <<>>
    /\ attrs \in [1..NumCandidates -> RunAttrLists]
    /\ gPc = [r \in Updaters |-> IF r = Self THEN "family" ELSE "idle"]
    /\ gRet = [r \in Updaters |-> NotGuarded]
    /\ active = {Self}
    /\ listed = <<>> /\ lPage = 0 /\ stateAtList = <<>>
    /\ reported = {} /\ startErr = Nil /\ runNo = 1
    /\ UnitIdle
    /\ pc = "list" /\ idx = 0 /\ exit = "running"
    /\ candidates = <<>>
    /\ hostState \in [1..NumCandidates -> {"ACTIVE", "DRAINING"}]
    /\ tasks = {} /\ taskARNs = {} /\ nonSvcAtDrain = {}
    /\ retEligible = NotReturned /\ retDrain = NotReturned /\ retActivate = NotReturned

\* another task of the family starts or stops while this one starts up
EnvOtherUpdater ==
    /\ gPc[Self] \in {"family", "guard"}
    /\ \E r \in Updaters \ {Self} :
          active' = IF r \in active THEN active \ {r} ELSE active \cup {r}
    /\ UNCHANGED <<histVars, sendVars, updVars, pageVars, pc, idx, candidates, exit, hostState,
                   tasks, taskARNs, nonSvcAtDrain, retEligible, retDrain, retActivate,
                   gPc, gRet, listed, lPage, stateAtList, endVars>>

NextStart ==
    \/ guard(Self)
    \/ EnvOtherUpdater
    \/ listContainerInstances
    \/ filterBottlerocketInstances
    \/ filterAvailableUpdates
    \/ main_Start
    \/ Program
    \/ Env

SpecStart == InitStart /\ [][NextStart]_vars

-----------------------------------------------------------------------------
(* Specification of NumRuns runs of the updater, one after the other, on the
   same cluster *)

\* the run has ended and the scheduled rule starts the updater again
EnvRunAgain ==
    /\ pc = "done" \/ gPc[Self] \in {"exit_ok", "exit_err"}
    /\ runNo < NumRuns
    /\ runNo' = runNo + 1
    /\ calls' = <<>> /\ journal' = <<>> /\ waited' = {} /\ logged' = {}
    /\ gPc' = [r \in Updaters |-> IF r = Self THEN "family" ELSE "idle"]
    /\ gRet' = [r \in Updaters |-> NotGuarded]
    /\ active' = {Self}
    /\ listed' = <<>> /\ lPage' = 0 /\ stateAtList' = <<>>
    /\ reported' = {} /\ startErr' = Nil
    /\ pc' = "list" /\ idx' = 0 /\ exit' = "running"
    /\ candidates' = <<>>
    /\ tasks' = {} /\ taskARNs' = {} /\ nonSvcAtDrain' = {}
    /\ retEligible' = NotReturned /\ retDrain' = NotReturned /\ retActivate' = NotReturned
    /\ UNCHANGED <<sendVars, updVars, pageVars, hostState, unitVars>>

NextTwice == NextStart \/ EnvRunAgain

SpecTwice == InitStart /\ [][NextTwice]_vars

-----------------------------------------------------------------------------
(* Specification of one eachPage call: src/unnamed/part_006:149-162, with the
   sizes its callers give it (lines 105, 176) and with any small size *)

Callers == {"filterBottlerocketInstances", "filterAvailableUpdates", "any"}

\* the size argument of the call: lines 105 and 176
SizesOf(caller) ==
    CASE caller = "filterBottlerocketInstances" -> {ecsPageSizeConst}
      [] caller = "filterAvailableUpdates" -> {ssmPageSizeConst}
      [] OTHER -> 1..MaxSize

\* the callbacks of the two filters always return nil (lines 105-127, 176-203)
fnMayFail(caller) == caller = "any"

InitPages ==
    /\ calls = <<>> /\ journal = <<>> /\ waited = {} /\ logged = {}
    /\ SendIdle
    /\ UpdIdle
    /\ pc = "done" /\ idx = 0 /\ candidates = <<>> /\ exit = "running"
    /\ hostState = <<>> /\ tasks = {} /\ taskARNs = {} /\ nonSvcAtDrain = {}
    /\ retEligible = NotReturned /\ retDrain = NotReturned /\ retActivate = NotReturned
    /\ gPc = [r \in Updaters |-> "idle"]
    /\ gRet = [r \in Updaters |-> NotGuarded]
    /\ active = {}
    /\ listed = <<>> /\ lPage = 0 /\ stateAtList = <<>>
    /\ reported = {} /\ startErr = Nil /\ runNo = 1
    /\ pgIn = <<>> /\ pgErrCount = 0 /\ pgLastErr = Nil /\ pgPos = 0 /\ pgCmd = 0
    /\ pgOut = <<>> /\ pgRet = NoPageRet /\ pgSeen = <<>> /\ attrs = <<>>
    /\ pgPc = "ep_page" /\ pgStart = 0 /\ pgStop = 0 /\ pgPageCount = 0
    /\ ResultIdle /\ cancelled = FALSE
    /\ epCaller \in Callers
    /\ epLen \in 0..MaxInputLen
    /\ epSize \in SizesOf(epCaller)
    /\ epWindows = <<>>
    /\ epRet = NoPages

\* A faulty variant of eachPage_Call that notes the callback's error and goes
\* on with the next window
eachPage_Call_GoesOn ==
    /\ pgPc = "ep_page"
    /\ pgStart < epLen
    /\ LET stop == eachPage_Stop(pgStart, epSize, epLen)
       IN /\ pgStop' = stop
          /\ epWindows' = Append(epWindows, <<pgStart, stop>>)
    /\ eachPage_Advance(epSize)
    /\ \/ UNCHANGED <<pgPc, epRet>>
       \/ /\ fnMayFail(epCaller)
          /\ epRet' = [returned |-> FALSE, count |-> 0, err |-> <<"fn-err">>]
          /\ UNCHANGED pgPc
    /\ UNCHANGED <<histVars, sendVars, updVars, pc, idx, candidates, exit, hostState, tasks,
                   taskARNs, nonSvcAtDrain, retEligible, retDrain, retActivate,
                   gPc, gRet, active, listed, lPage, stateAtList, reported, startErr, runNo,
                   pgIn, pgErrCount, pgLastErr, pgPos, pgCmd, pgOut, pgRet, pgSeen, attrs,
                   epCaller, epLen, epSize, resultVars, cancelled>>

\* lines 151-159: one turn of the loop; fn(start, stop) is called and either
\* fails, which ends eachPage with (0, err), or returns nil
eachPage_Call ==
    /\ pgPc = "ep_page"
    /\ pgStart < epLen
    /\ LET stop == eachPage_Stop(pgStart, epSize, epLen)
       IN /\ pgStop' = stop
          /\ epWindows' = Append(epWindows, <<pgStart, stop>>)
    /\ \/ /\ eachPage_Advance(epSize)
          /\ UNCHANGED <<pgPc, epRet>>
       \/ /\ fnMayFail(epCaller)
          /\ epRet' = [returned |-> TRUE, count |-> 0, err |-> <<"fn-err">>]
          /\ pgPc' = "ep_returned"
          /\ UNCHANGED <<pgStart, pgPageCount>>
    /\ UNCHANGED <<histVars, sendVars, updVars, pc, idx, candidates, exit, hostState, tasks,
                   taskARNs, nonSvcAtDrain, retEligible, retDrain, retActivate,
                   gPc, gRet, active, listed, lPage, stateAtList, reported, startErr, runNo,
                   pgIn, pgErrCount, pgLastErr, pgPos, pgCmd, pgOut, pgRet, pgSeen, attrs,
                   epCaller, epLen, epSize, resultVars, cancelled>>

\* lines 151, 161: start < inputLen is false; return pageCount, nil
eachPage_Return ==
    /\ pgPc = "ep_page"
    /\ pgStart >= epLen
    /\ epRet' = [returned |-> TRUE, count |-> pgPageCount, err |-> Nil]
    /\ pgPc' = "ep_returned"
    /\ UNCHANGED <<histVars, sendVars, updVars, pc, idx, candidates, exit, hostState, tasks,
                   taskARNs, nonSvcAtDrain, retEligible, retDrain, retActivate,
                   gPc, gRet, active, listed, lPage, stateAtList, reported, startErr, runNo,
                   pgIn, pgStart, pgStop, pgPageCount,
                   pgErrCount, pgLastErr, pgPos, pgCmd, pgOut, pgRet, pgSeen, attrs,
                   epCaller, epLen, epSize, epWindows, resultVars, cancelled>>

NextPages == eachPage_Call \/ eachPage_Return

SpecPages == InitPages /\ [][NextPages]_vars

-----------------------------------------------------------------------------
(* Specification of one getCommandResult call followed, as in
   filterAvailableUpdates (lines 186-195), by parseCommandOutput on the bytes
   it returned, and of one parseCommandOutput call on any bytes:
   src/unnamed/part_006:469-482, 505-515 *)

InitResult ==
    /\ calls = <<>> /\ journal = <<>> /\ waited = {} /\ logged = {}
    /\ SendIdle
    /\ UpdIdle
    /\ pc = "done" /\ idx = 0 /\ candidates = <<>> /\ exit = "running"
    /\ hostState = <<>> /\ tasks = {} /\ taskARNs = {} /\ nonSvcAtDrain = {}
    /\ retEligible = NotReturned /\ retDrain = NotReturned /\ retActivate = NotReturned
    /\ gPc = [r \in Updaters |-> "idle"]
    /\ gRet = [r \in Updaters |-> NotGuarded]
    /\ active = {}
    /\ listed = <<>> /\ lPage = 0 /\ stateAtList = <<>>
    /\ reported = {} /\ startErr = Nil /\ runNo = 1
    /\ PageIdle
    /\ PageUnitIdle /\ cancelled = FALSE
    /\ crResult = NoResult /\ crParsed = NoParsed
    /\ \/ crPc = "get" /\ crResp \in InvocationResponses /\ crBytes = <<>>
       \/ crPc = "parse" /\ crResp = NoResponse /\ crBytes \in CheckOutputs \cup {NilBytes}

\* lines 469-482; lines 186-191: the caller goes on to parse only the bytes of
\* a call that returned no error
getCommandResult_Call ==
    /\ crPc = "get"
    /\ LET r == getCommandResult(crResp)
       IN /\ crResult' = [returned |-> TRUE, out |-> r.out, err |-> r.err]
          /\ IF r.err = Nil
             THEN crPc' = "parse" /\ crBytes' = r.out
             ELSE crPc' = "done" /\ crBytes' = crBytes
    /\ UNCHANGED <<histVars, sendVars, updVars, pc, idx, candidates, exit, hostState, tasks,
                   taskARNs, nonSvcAtDrain, retEligible, retDrain, retActivate,
                   gPc, gRet, active, listed, lPage, stateAtList, reported, startErr, runNo,
                   pageVars, pageUnitVars, crResp, crParsed, cancelled>>

\* lines 505-515
parseCommandOutput_Call ==
    /\ crPc = "parse"
    /\ LET r == parseCommandOutput(crBytes)
       IN crParsed' = [returned |-> TRUE, output |-> r.output, err |-> r.err]
    /\ crPc' = "done"
    /\ UNCHANGED <<histVars, sendVars, updVars, pc, idx, candidates, exit, hostState, tasks,
                   taskARNs, nonSvcAtDrain, retEligible, retDrain, retActivate,
                   gPc, gRet, active, listed, lPage, stateAtList, reported, startErr, runNo,
                   pageVars, pageUnitVars, crResp, crBytes, crResult, cancelled>>

NextResult == getCommandResult_Call \/ parseCommandOutput_Call

SpecResult == InitResult /\ [][NextResult]_vars

-----------------------------------------------------------------------------
(* Properties of sendCommand *)

SendReturned == sPc = "returned" /\ Len(sIDs) > 0 /\ sCmd # 0

\* C2: for a non-empty target list whose send request succeeded, sendCommand
\* returns the command id without error if and only if at least one waiter's
\* own wait call succeeded, and returns an error if and only if every waiter's
\* wait call failed, under every interleaving of the waiters.
C2_SendSucceedsIffSomeWaiterSucceeded ==
    SendReturned =>
        /\ (sRet.err = Nil /\ sRet.id = sCmd) <=> (\E i \in Waiters : wRes[i] = "ok")
        /\ (sRet.err # Nil) <=> (\A i \in Waiters : wRes[i] = "fail")

-----------------------------------------------------------------------------
(* Properties of updateInstance and verifyUpdate *)

IsSend(c)   == c.api = "SendCommand"
SendCalls   == SelectSeq(calls, IsSend)
\* the documents of the SendCommand requests issued so far, in order
SentDocs    == [k \in 1..Len(SendCalls) |-> SendCalls[k].doc]

\* C8: updateInstance sends documents in this order, decided by the update
\* state it parsed from its own check: Available: check, apply, reboot (reboot
\* is left out only when the apply step failed); Ready: check, reboot and never
\* apply; Idle: check only, returning success; Staged or any other state (or no
\* parsed state at all): check only, returning an error.
C8_UpdateInstanceDocumentOrder ==
    uPc = "u_returned" =>
        LET st == uCheck.UpdateState
        IN CASE st = updateStateAvailable ->
                   /\ SentDocs \in {<<checkDocument, applyDocument>>,
                                    <<checkDocument, applyDocument, rebootDocument>>}
                   /\ (SentDocs = <<checkDocument, applyDocument>>
                          => uRet.err # Nil /\ uRet.err[1] = "failed to send update apply command")
             [] st = updateStateReady ->
                   SentDocs = <<checkDocument, rebootDocument>>
             [] st = updateStateIdle ->
                   SentDocs = <<checkDocument>> /\ uRet.err = Nil
             [] OTHER ->
                   SentDocs = <<checkDocument>> /\ uRet.err # Nil

C8_Witness ==
    /\ uPc = "u_returned"
    /\ uCheck.UpdateState = updateStateAvailable
    /\ SentDocs = <<checkDocument, applyDocument, rebootDocument>>
    /\ uRet.err = Nil

RebootSends ==
    {k \in 1..Len(calls) : IsSend(calls[k]) /\ calls[k].doc = rebootDocument /\ calls[k].res = "ok"}

\* C9: for the reboot document updateInstance never calls the command-executed
\* waiter and never fetches the invocation; once the reboot send succeeded the
\* next remote call is the instance-status-OK waiter for the same instance, and
\* on the Available and Ready paths updateInstance returns success only if
\* that waiter succeeded.
C9_RebootIsNotAwaited ==
    /\ \A k \in RebootSends :
          /\ \A w \in waited \cup logged : w[1] # calls[k].cmd
          /\ \A j \in 1..Len(calls) :
                calls[j].api = "GetCommandInvocation" => calls[j].cmd # calls[k].cmd
    /\ uPc = "u_returned" =>
          /\ \A k \in RebootSends :
                /\ k < Len(calls)
                /\ calls[k + 1].api = "WaitUntilInstanceStatusOk"
                /\ calls[k + 1].ids = calls[k].ids
          /\ (uRet.err = Nil /\ uCheck.UpdateState \in {updateStateAvailable, updateStateReady})
                => /\ calls[Len(calls)].api = "WaitUntilInstanceStatusOk"
                   /\ calls[Len(calls)].res = "ok"

C9_Witness ==
    /\ uPc = "u_returned"
    /\ uRet.err = Nil
    /\ uCheck.UpdateState = updateStateReady
    /\ RebootSends # {}

\* C10: when verifyUpdate's check is sent, fetched and parsed successfully, it
\* returns false without error if and only if the active version equals the
\* pre-update version of the instance; if the version differs it returns true
\* whatever the update state is.
C10_VerifyComparesVersions ==
    (uPc = "v_returned" /\ uCheck # NoCheck) =>
        /\ (uRet.ok = FALSE /\ uRet.err = Nil) <=> (uCheck.Version = uInst.bottlerocketVersion)
        /\ (uCheck.Version # uInst.bottlerocketVersion) => (uRet.ok = TRUE /\ uRet.err = Nil)

C10_Witness ==
    /\ uPc = "v_returned"
    /\ uCheck.UpdateState = updateStateAvailable
    /\ uCheck.Version # uInst.bottlerocketVersion
    /\ uRet.ok = TRUE

-----------------------------------------------------------------------------
(* Properties of a run of _main *)

JHost(k)      == journal[k].ids[1]
IsVerdict(k)  == journal[k].api = "eligible"
IsDraining(k) == journal[k].api = "UpdateContainerInstancesState" /\ journal[k].doc = "DRAINING"
IsActive(k)   == journal[k].api = "UpdateContainerInstancesState" /\ journal[k].doc = "ACTIVE"
IsCommand(k)  == journal[k].api = "SendCommand"

\* the ACTIVE change at k returned the host to ACTIVE: it was accepted, or its
\* response failure had reason INACTIVE
Reactivated(k)   == IsActive(k) /\ journal[k].res \in {"ok", "INACTIVE"}
ActivateFailed(k) == IsActive(k) /\ journal[k].res \in {"err", "MISSING"}

\* the position of host h in the candidate list
Pos(h) == CHOOSE p \in 1..Len(candidates) : candidates[p] = h

\* C1: for every host for which the run issued a DRAINING state change that
\* reached ECS (accepted, or answered with response failures), at the end of
\* the run either a later ACTIVE change for the host succeeded or reported
\* reason INACTIVE, or the run returned an error.
C1_DrainedHostsEndActive ==
    exit # "running" =>
        \A k \in 1..Len(journal) :
            (IsDraining(k) /\ journal[k].res \in {"ok", "failures"}) =>
                \/ exit = "err"
                \/ \E j \in (k + 1)..Len(journal) : Reactivated(j) /\ JHost(j) = JHost(k)

\* C3: at most one host is in transition: nothing (eligibility verdict, state
\* change, command) is issued for another host after a DRAINING change was
\* accepted for a host unless that host was returned to ACTIVE in between.
C3_OneHostInTransition ==
    \A i \in 1..Len(journal) : \A j \in (i + 1)..Len(journal) :
        (IsDraining(i) /\ journal[i].res = "ok" /\ JHost(j) # JHost(i)) =>
            \E m \in (i + 1)..(j - 1) : Reactivated(m) /\ JHost(m) = JHost(i)

\* C4: a candidate whose eligibility check returned false or an error never
\* gets a state change or a command from the run; the run is not aborted by it
\* and goes on with the next candidate of the list, or ends successfully when
\* it was the last one.
C4_IneligibleHostIsSkipped ==
    \A k \in 1..Len(journal) :
        (IsVerdict(k) /\ journal[k].res \in {"false", "err"}) =>
            /\ \A j \in 1..Len(journal) :
                  JHost(j) = JHost(k) => ~IsDraining(j) /\ ~IsActive(j) /\ ~IsCommand(j)
            /\ IF k < Len(journal)
               THEN /\ IsVerdict(k + 1)
                    /\ Pos(JHost(k + 1)) = Pos(JHost(k)) + 1
               ELSE \/ pc = "next" /\ idx = Pos(JHost(k))
                    \/ pc \in {"eligible", "eligible_desc"} /\ idx = Pos(JHost(k)) + 1
                    \/ pc = "done" /\ exit = "ok" /\ Pos(JHost(k)) = Len(candidates)

\* the run ended successfully, its first candidate was skipped as not eligible
\* and a later candidate was drained
C4_Witness ==
    /\ exit = "ok"
    /\ \E k \in 1..Len(journal) :
          /\ IsVerdict(k) /\ journal[k].res = "false" /\ Pos(JHost(k)) = 1
          /\ \E j \in (k + 1)..Len(journal) : IsDraining(j) /\ journal[j].res = "ok"

\* C5: whenever ECS accepts a DRAINING change of the run for a host, no
\* non-service task (started_by not beginning with "ecs-svc/") is running on
\* that host at that moment, also when other actors start tasks on the host
\* between the eligibility check and the DRAINING request.
C5_NoNonServiceTaskAtDrain ==
    nonSvcAtDrain = {}

\* C6: a failed ACTIVE change (transport error, or a response failure whose
\* reason is not INACTIVE) for a host whose DRAINING change of this run was
\* accepted is run-fatal: the run does not end successfully and nothing is
\* issued after it.
C6_ReactivationFailureIsFatal ==
    \A k \in 1..Len(journal) :
        (/\ ActivateFailed(k)
         /\ \E i \in 1..(k - 1) :
               IsDraining(i) /\ journal[i].res = "ok" /\ JHost(i) = JHost(k)) =>
            /\ k = Len(journal)
            /\ exit # "ok"

\* a verdict of eligible exists for the p-th candidate
Processed(p) ==
    \E k \in 1..Len(journal) : IsVerdict(k) /\ JHost(k) = candidates[p]

Verdicts == {k \in 1..Len(journal) : IsVerdict(k)}

\* the candidates got their verdicts in list order, none left out
VerdictsInListOrder ==
    /\ \A k \in Verdicts : Cardinality({j \in Verdicts : j <= k}) = Pos(JHost(k))
    /\ \A p \in 1..Len(candidates) : Processed(p) => \A q \in 1..p : Processed(q)

\* what aborts the run: a failed ACTIVE change issued by _main, or a failed
\* wait for the rebooted instance
AbortedByFatalStep ==
    \/ Len(journal) > 0 /\ ActivateFailed(Len(journal))
    \/ /\ Len(calls) > 0
       /\ calls[Len(calls)].api = "WaitUntilInstanceStatusOk"
       /\ calls[Len(calls)].res = "err"

-----------------------------------------------------------------------------
(* Properties of filterAvailableUpdates *)

FilterReturned == pgPc = "fa_returned"

\* the input index of a returned host
InputIndex(inst) == CHOOSE k \in 1..Len(pgIn) : pgIn[k].instanceID = inst.instanceID

\* the hosts (input indexes) whose check result was fetched and parsed in this
\* call with update state Available or Ready
Updatable ==
    {k \in 1..Len(pgIn) :
        /\ pgSeen[k].kind = "parsed"
        /\ pgSeen[k].output.UpdateState \in {updateStateAvailable, updateStateReady}}

\* C11: every host returned by filterAvailableUpdates had in this call a parsed
\* check result with update state Available or Ready and a non-empty active
\* version, and carries that version as its pre-update version; hosts in state
\* Idle, Staged or unknown are never returned; and every host with a fetched
\* and parsed Available or Ready result is returned.
C11_CandidatesAreUpdatable ==
    (FilterReturned /\ pgRet.err = Nil) =>
        /\ \A c \in 1..Len(pgRet.out) :
              LET k == InputIndex(pgRet.out[c])
              IN /\ k \in Updatable
                 /\ pgSeen[k].output.Version # ""
                 /\ pgRet.out[c].bottlerocketVersion = pgSeen[k].output.Version
        /\ \A k \in Updatable :
              \E c \in 1..Len(pgRet.out) : pgRet.out[c].instanceID = pgIn[k].instanceID

\* an Available and a Ready host were returned and an Idle host was left out
C11_Witness ==
    /\ FilterReturned /\ pgRet.err = Nil
    /\ Len(pgRet.out) = 2
    /\ \E k \in 1..Len(pgIn) :
          pgSeen[k].kind = "parsed" /\ pgSeen[k].output.UpdateState = updateStateIdle
    /\ \E a, b \in Updatable :
          /\ pgSeen[a].output.UpdateState = updateStateAvailable
          /\ pgSeen[b].output.UpdateState = updateStateReady

\* the windows of the call, numbered from 0, and the input indexes of a window
PageCount == (Len(pgIn) + ssmPageSize - 1) \div ssmPageSize
PageHosts(w) ==
    {k \in 1..Len(pgIn) : k > w * ssmPageSize /\ k <= (w + 1) * ssmPageSize}

\* the windows whose check send failed (sendCommand returned an error)
FailedPages ==
    {w \in 0..(PageCount - 1) : \A k \in PageHosts(w) : pgSeen[k].kind = "unsent"}

-----------------------------------------------------------------------------
(* Properties of filterBottlerocketInstances *)

DescribeReturned == pgPc = "fb_returned"

DescribePageCount == (Len(pgIn) + ecsPageSize - 1) \div ecsPageSize
DescribePageHosts(w) ==
    {k \in 1..Len(pgIn) : k > w * ecsPageSize /\ k <= (w + 1) * ecsPageSize}

\* the windows whose DescribeContainerInstances call failed
FailedDescribePages ==
    {w \in 0..(DescribePageCount - 1) :
        \A k \in DescribePageHosts(w) : pgSeen[k].kind = "undescribed"}

\* the host at input index k carries an attribute named bottlerocket.variant
HasMarker(k) ==
    \E i \in 1..Len(attrs[pgIn[k]]) : attrs[pgIn[k]][i].name = "bottlerocket.variant"

IsExpectedHost(k) == pgSeen[k].kind = "described" /\ HasMarker(k)

\* the hosts that must be returned, in input order
ExpectedHosts ==
    LET ks == SelectSeq([k \in 1..Len(pgIn) |-> k], IsExpectedHost)
    IN [c \in 1..Len(ks) |-> pgIn[ks[c]]]

ReturnedHosts == [c \in 1..Len(pgRet.out) |-> pgRet.out[c].containerInstanceID]

DescribeCalls ==
    {j \in 1..Len(calls) : calls[j].api = "DescribeContainerInstances"}

\* C13: with N >= 1 windows filterBottlerocketInstances returns an error,
\* wrapping the error of the last describe call, if and only if the describe
\* call failed for every window; otherwise it returns, without error, the
\* target-OS hosts of exactly the windows whose describe succeeded; and every
\* window is described whatever happened to the windows before it.
C13_OnlyTotalDescribeFailureIsFatal ==
    (DescribeReturned /\ Len(pgIn) >= 1) =>
        /\ Cardinality(DescribeCalls) = DescribePageCount
        /\ (pgRet.err # Nil) <=> (Cardinality(FailedDescribePages) = DescribePageCount)
        /\ (pgRet.err # Nil) =>
              /\ ErrorIs(pgRet.err, DescribeError(DescribePageCount))
              /\ pgRet.out = <<>>
        /\ (pgRet.err = Nil) => ReturnedHosts = ExpectedHosts

\* the first of two windows failed and the call returned a host of the second
C13_Witness ==
    /\ DescribeReturned /\ pgRet.err = Nil
    /\ DescribePageCount = 2
    /\ FailedDescribePages = {0}
    /\ Len(pgRet.out) >= 1

\* C14: a described host is in the filtered set if and only if its attribute
\* list contains an attribute named "bottlerocket.variant", whatever its value;
\* a host with no attributes or only other attribute names is not included.
C14_MarkerAttributeDecides ==
    (DescribeReturned /\ pgRet.err = Nil) =>
        \A k \in 1..Len(pgIn) :
            pgSeen[k].kind = "described" =>
                ((\E c \in 1..Len(pgRet.out) : pgRet.out[c].containerInstanceID = pgIn[k])
                    <=> HasMarker(k))

\* a host with the marker attribute next to another one was returned; a host
\* without attributes and a host that has the marker only as a value were not
C14_Witness ==
    /\ DescribeReturned /\ pgRet.err = Nil
    /\ Len(pgRet.out) = 1
    /\ \E a, b, c \in 1..Len(pgIn) :
          /\ pgSeen[a].kind = "described" /\ Len(attrs[pgIn[a]]) = 2 /\ HasMarker(a)
          /\ pgSeen[b].kind = "described" /\ attrs[pgIn[b]] = <<>>
          /\ pgSeen[c].kind = "described"
          /\ attrs[pgIn[c]] = <<Attr("ecs.os-family", "bottlerocket.variant")>>

-----------------------------------------------------------------------------
(* Properties of eligible, drainInstance and activateInstance *)

\* the calls of the current candidate issued by function f for operation api
CallsOf(f, api) == {j \in 1..Len(calls) : calls[j].by = f /\ calls[j].api = api}

\* some call of f for api had an outcome in rs
SomeCall(f, api, rs) == \E j \in CallsOf(f, api) : calls[j].res \in rs

\* C15: eligible returns true without error if and only if ListTasks and
\* DescribeTasks succeed and either no task is listed or every described task
\* has started_by beginning with "ecs-svc/" (an empty started_by makes the host
\* ineligible); when listing or describing fails it returns false with an
\* error wrapping the cause.
C15_EligibleIffOnlyServiceTasks ==
    retEligible.returned =>
        /\ (retEligible.ok /\ retEligible.err = Nil) <=>
              \/ SomeCall("eligible", "ListTasks", {"empty"})
              \/ /\ SomeCall("eligible", "ListTasks", {"listed"})
                 /\ SomeCall("eligible", "DescribeTasks", {"eligible", "ineligible"})
                 /\ \A t \in retEligible.desc :
                       /\ StartedBy(t) # <<>>
                       /\ HasPrefix(StartedBy(t), <<"e", "c", "s", "-", "s", "v", "c", "/">>)
        /\ SomeCall("eligible", "ListTasks", {"err"}) =>
              ~retEligible.ok /\ ErrorIs(retEligible.err, <<"list-err">>)
        /\ SomeCall("eligible", "DescribeTasks", {"err"}) =>
              ~retEligible.ok /\ ErrorIs(retEligible.err, <<"describe-err">>)
        /\ retEligible.err # Nil =>
              \/ SomeCall("eligible", "ListTasks", {"err"})
              \/ SomeCall("eligible", "DescribeTasks", {"err"})

\* the only task of the host has no started_by: eligible returns false, no error
C15_Witness ==
    /\ retEligible.returned
    /\ ~retEligible.ok /\ retEligible.err = Nil
    /\ retEligible.desc # {}
    /\ \A t \in retEligible.desc : StartedBy(t) = <<>>

DrainingCalls == CallsOf("drainInstance", "UpdateContainerInstancesState")
                    \cap {j \in 1..Len(calls) : calls[j].doc = "DRAINING"}
ActiveCalls   == {j \in 1..Len(calls) :
                    /\ calls[j].api = "UpdateContainerInstancesState"
                    /\ calls[j].doc = "ACTIVE"}

\* the ACTIVE changes issued from within drainInstance
ReactivateCalls == {a \in ActiveCalls : calls[a].by = "drainInstance"}

DrainFailedDownstream ==
    \/ \E j \in DrainingCalls : calls[j].res = "failures"
    \/ SomeCall("waitUntilDrained", "ListTasks", {"err"})
    \/ SomeCall("waitUntilDrained", "WaitUntilTasksStopped", {"err"})

\* C16: drainInstance returns success only if the DRAINING change was accepted
\* without response failures and then no task was listed or the task-stopped
\* wait succeeded, and then it issued no ACTIVE change. If the DRAINING
\* response carries failures, or listing tasks fails, or the wait fails, it
\* issues exactly one ACTIVE change for the same host after the DRAINING
\* request and returns an error; on a transport error of the DRAINING request
\* it returns an error and issues no ACTIVE change.
C16_DrainInstanceOutcome ==
    retDrain.returned =>
        /\ Cardinality(DrainingCalls) = 1
        /\ retDrain.err = Nil =>
              /\ \A j \in DrainingCalls : calls[j].res = "ok"
              /\ \/ SomeCall("waitUntilDrained", "ListTasks", {"empty"})
                 \/ SomeCall("waitUntilDrained", "WaitUntilTasksStopped", {"ok"})
              /\ ReactivateCalls = {}
        /\ DrainFailedDownstream =>
              /\ retDrain.err # Nil
              /\ Cardinality(ReactivateCalls) = 1
              /\ \A a \in ReactivateCalls : \A d \in DrainingCalls :
                    a > d /\ calls[a].ids = calls[d].ids
        /\ (\E j \in DrainingCalls : calls[j].res = "err") =>
              retDrain.err # Nil /\ ReactivateCalls = {}

\* the task-stopped wait failed: one ACTIVE change was issued and drainInstance
\* returned an error
C16_Witness ==
    /\ retDrain.returned /\ retDrain.err # Nil
    /\ SomeCall("waitUntilDrained", "WaitUntilTasksStopped", {"err"})
    /\ Cardinality(ReactivateCalls) = 1

\* C17: activateInstance returns success if the ACTIVE change is accepted
\* without response failures or if the response failure has reason INACTIVE;
\* for any other response failure and for a transport error it returns an
\* error.
C17_ActivateInstanceOutcome ==
    retActivate.returned =>
        /\ ActiveCalls # {}
        /\ LET last == CHOOSE a \in ActiveCalls : \A b \in ActiveCalls : b <= a
           IN /\ calls[last].res \in {"ok", "INACTIVE"} => retActivate.err = Nil
              /\ calls[last].res \in {"MISSING", "err"} => retActivate.err # Nil
              /\ calls[last].res = "err" => ErrorIs(retActivate.err, <<"state-err">>)

\* the response failure had reason INACTIVE and activateInstance returned nil
C17_Witness ==
    /\ retActivate.returned /\ retActivate.err = Nil
    /\ \E a \in ActiveCalls : calls[a].res = "INACTIVE"

-----------------------------------------------------------------------------
(* Properties of the start of a run *)

\* C18: alreadyRunning returns true if and only if listing the tasks of the
\* updater's task family succeeds and returns more than one task; when it
\* returns true the run exits successfully and has listed no host, sent no
\* command and changed no host state.
C18_GuardReportsAnotherRun ==
    gRet[Self].returned =>
        /\ gRet[Self].ok <=> (gRet[Self].err = Nil /\ gRet[Self].count > 1)
        /\ gRet[Self].ok =>
              /\ gPc[Self] \in {"guarded", "exit_ok"}
              /\ exit # "err"
              /\ lPage = 0 /\ listed = <<>>
              /\ calls = <<>> /\ journal = <<>>
              /\ sPc = "idle" /\ pgPc = "idle"

\* two tasks of the family were listed and the run has exited successfully
C18_Witness ==
    /\ gRet[Self].returned /\ gRet[Self].ok /\ gRet[Self].count = 2
    /\ gPc[Self] = "exit_ok"

\* the updater tasks that went on to work on the hosts of the cluster
Working == {r \in Updaters : gPc[r] = "work"}

\* C19: of two active updater tasks of the same family on the same cluster,
\* under every interleaving of their start-up and guard checks, at most one
\* goes on to drain or update hosts.
C19_AtMostOneRunWorks == Cardinality(Working) <= 1

\* the container instance was ACTIVE when the run listed the cluster
ActiveAtList(h) == stateAtList[h] = "ACTIVE"

\* the container instance is among the listed ones
IsListed(h) == \E k \in 1..Len(listed) : listed[k] = h

\* listContainerInstances has returned a list to _main
ListingReturned == lPage > 0 /\ pc # "list" /\ ~(exit = "err" /\ listed = <<>>)

\* C20: only container instances returned by the listing restricted to ACTIVE
\* status at the start of the run are drained, sent a command or reactivated
\* by the run; an instance that was DRAINING when the run listed the hosts is
\* never touched; the listing holds the instances of every page in order.
C20_OnlyListedActiveHostsAreTouched ==
    /\ \A k \in 1..Len(journal) :
          (IsDraining(k) \/ IsActive(k) \/ IsCommand(k)) =>
              \A j \in 1..Len(journal[k].ids) :
                  /\ IsListed(journal[k].ids[j])
                  /\ ActiveAtList(journal[k].ids[j])
    /\ ListingReturned =>
          listed = SelectSeq([h \in 1..Len(stateAtList) |-> h], ActiveAtList)

\* the first container instance was DRAINING when the cluster was listed, the
\* second one was listed and the run has drained it and sent it a command
C20_Witness ==
    /\ ListingReturned
    /\ stateAtList = <<"DRAINING", "ACTIVE">>
    /\ \E k \in 1..Len(journal) : IsDraining(k) /\ journal[k].res = "ok" /\ JHost(k) = 2
    /\ \E k \in 1..Len(journal) :
          IsCommand(k) /\ journal[k].doc = applyCommand /\ journal[k].res = "ok"

-----------------------------------------------------------------------------
(* Properties of whole runs *)

\* the run has changed no host state and has sent nothing that applies an
\* update or reboots
NoUpdateWork ==
    \A k \in 1..Len(journal) :
        /\ ~IsDraining(k)
        /\ ~IsActive(k)
        /\ IsCommand(k) => journal[k].doc \notin {applyCommand, applyDocument, rebootDocument}

StartErrors == {"failed to list container instances",
                "failed to describe any container instances",
                "failed to check updates"}

\* C21 as stated: if no target-OS host reports Available or Ready, the run
\* (the first and the one right after it) changes no host state, sends no
\* apply and no reboot command, and exits successfully.
C21_NoUpdateRunIsNoOp ==
    reported = {} =>
        /\ NoUpdateWork
        /\ pc = "done" => exit = "ok"

\* C21: if no target-OS host reports Available or Ready, the run (the first
\* and the one right after it) changes no host state and sends no apply and
\* no reboot command; it exits successfully unless the listing of the hosts,
\* every describe call or every check send failed, and then it returns that
\* error.
C21_NoUpdateRunIsNoOpOrStartError ==
    reported = {} =>
        /\ NoUpdateWork
        /\ pc = "done" =>
              \/ exit = "ok" /\ startErr = Nil
              \/ exit = "err" /\ startErr # Nil /\ Head(startErr) \in StartErrors

\* the second run has sent the check, fetched a result that is neither
\* Available nor Ready, and has exited successfully
C21_Witness ==
    /\ runNo = 2 /\ pc = "done" /\ exit = "ok" /\ reported = {}
    /\ \E j \in 1..Len(calls) :
          calls[j].api = "GetCommandInvocation" /\ calls[j].res = "Success"
    /\ NoUpdateWork

\* the calls of the run so far that are no page of the host listing
CallsAfterListing == {j \in 1..Len(calls) : calls[j].api # "ListContainerInstances"}

ListingFailed == \E j \in 1..Len(calls) :
                    calls[j].api = "ListContainerInstances" /\ calls[j].res = "err"

\* the container instance has an attribute named bottlerocket.variant
CarriesMarker(h) == \E a \in 1..Len(attrs[h]) : attrs[h][a].name = "bottlerocket.variant"

NoListedHostCarriesMarker ==
    ListingReturned /\ \A k \in 1..Len(listed) : ~CarriesMarker(listed[k])

EveryDescribeFailed ==
    /\ CallsAfterListing # {}
    /\ \A j \in CallsAfterListing :
          calls[j].api = "DescribeContainerInstances" /\ calls[j].res = "err"

\* C22 as stated: a failed host listing makes the run return an error before
\* any describe call, command or state change; if the listing is empty or no
\* listed host carries the target-OS attribute, the run exits successfully
\* and sends no command and no state change.
C22_ListingFailureIsFatal ==
    /\ ListingFailed =>
          pc = "done" /\ exit = "err" /\ CallsAfterListing = {} /\ journal = <<>>
    /\ (ListingReturned /\ listed = <<>>) =>
          pc = "done" /\ exit = "ok" /\ CallsAfterListing = {} /\ journal = <<>>
    /\ NoListedHostCarriesMarker =>
          /\ journal = <<>>
          /\ pc = "done" => exit = "ok"

\* C22: a failed host listing makes the run return an error before any
\* describe call, command or state change; if the listing is empty the run
\* exits successfully; if no listed host carries the target-OS attribute the
\* run sends no command and no state change, and it exits successfully unless
\* every describe call failed, and then it returns that error.
C22_ListingFailureIsFatalDescribeToo ==
    /\ ListingFailed =>
          pc = "done" /\ exit = "err" /\ CallsAfterListing = {} /\ journal = <<>>
    /\ (ListingReturned /\ listed = <<>>) =>
          pc = "done" /\ exit = "ok" /\ CallsAfterListing = {} /\ journal = <<>>
    /\ NoListedHostCarriesMarker =>
          /\ journal = <<>>
          /\ pc = "done" =>
                IF EveryDescribeFailed
                THEN exit = "err" /\ Head(startErr) = "failed to describe any container instances"
                ELSE exit = "ok"

\* two hosts were listed, neither carries the attribute, a describe call
\* succeeded and the run has exited successfully
C22_Witness ==
    /\ NoListedHostCarriesMarker /\ Len(listed) = 2
    /\ \E j \in CallsAfterListing : calls[j].res = "ok"
    /\ pc = "done" /\ exit = "ok" /\ journal = <<>>

\* the number of host ids of instances[start:stop]
WindowLen(win) == win[2] - win[1]

\* C23: every call of eachPage's callback gets 0 <= start < stop <= inputLen
\* with stop - start <= size, for every inputLen and every size >= 1; with
\* the sizes of the two filters no describe call carries more than 100 host
\* ids and no check send more than 50.
C23_WindowsAreInBounds ==
    \A k \in 1..Len(epWindows) :
        LET win == epWindows[k]
        IN /\ 0 <= win[1] /\ win[1] < win[2] /\ win[2] <= epLen
           /\ WindowLen(win) <= epSize
           /\ epCaller = "filterBottlerocketInstances" => WindowLen(win) <= 100
           /\ epCaller = "filterAvailableUpdates" => WindowLen(win) <= 50

\* a describe of 101 hosts was cut into a window of 100 and a window of one;
\* the last window is the one the input's end cuts short
C23_Witness ==
    /\ epCaller = "filterBottlerocketInstances" /\ epLen = 101
    /\ epRet.returned
    /\ epWindows = << <<0, 100>>, <<100, 101>> >>

\* what eachPage returns for a callback that never fails
CeilDiv(n, w) == (n + w - 1) \div w

\* C24: as long as the callback has not failed its calls are on consecutive
\* windows in increasing order that do not overlap; when eachPage returns
\* they cover [0, inputLen) exactly once and the returned count is the number
\* of calls, the ceiling of inputLen / size.
C24_WindowsCoverInputOnce ==
    epRet.err = Nil =>
        /\ \A k \in 1..Len(epWindows) :
              /\ epWindows[k][1] = (IF k = 1 THEN 0 ELSE epWindows[k - 1][2])
              /\ epWindows[k][1] < epWindows[k][2]
        /\ epRet.returned =>
              /\ epLen > 0 => epWindows[Len(epWindows)][2] = epLen
              /\ epLen = 0 => epWindows = <<>>
              /\ epRet.count = Len(epWindows)
              /\ epRet.count = CeilDiv(epLen, epSize)

\* seven inputs in windows of three: three calls, the last one short
C24_Witness ==
    /\ epLen = 7 /\ epSize = 3 /\ epRet.returned /\ epRet.err = Nil
    /\ epRet.count = 3
    /\ epWindows = << <<0, 3>>, <<3, 6>>, <<6, 7>> >>

\* C25: getCommandResult returns the standard output's bytes and no error
\* exactly when the fetch succeeded and the invocation's status is Success; a
\* transport failure and any other status (TimedOut, empty) give no bytes and
\* an error.
C25_ResultIffFetchedAndSuccess ==
    crResult.returned =>
        LET success == ~crResp.err /\ crResp.status = "Success"
        IN /\ success <=> crResult.err = <<>>
           /\ success => crResult.out = crResp.stdout
           /\ ~success => crResult.out.kind = "nil" /\ crResult.err # <<>>

\* the invocation timed out with a well-formed standard output, and
\* getCommandResult returned no bytes and an error
C25_Witness ==
    /\ crResult.returned
    /\ ~crResp.err /\ crResp.status = "TimedOut" /\ crResp.stdout.kind = "json"
    /\ crResp.stdout.update_state = "Available"
    /\ crResult.out.kind = "nil" /\ crResult.err # <<>>

\* C26: parseCommandOutput returns no error exactly when the bytes decode as
\* JSON and update_state and active_partition.image.version are both there
\* and not empty, and then it returns those two values; otherwise it returns
\* an error, "mandatory fields are not available" when the bytes decode and a
\* field is missing or empty.
C26_ParsedIffBothFields ==
    crParsed.returned =>
        LET decodes == crBytes.kind = "json"
            both == crBytes.update_state # "" /\ crBytes.version # ""
        IN /\ (decodes /\ both) <=> crParsed.err = <<>>
           /\ (decodes /\ both) =>
                 /\ crParsed.output.UpdateState = crBytes.update_state
                 /\ crParsed.output.Version = crBytes.version
           /\ (decodes /\ ~both) =>
                 crParsed.err = <<"mandatory fields are not available">>
           /\ ~decodes => Head(crParsed.err) = "failed to unmarshal json"

\* bytes with an update state and no version were parsed after
\* getCommandResult returned them, and the mandatory-fields error came back
C26_Witness ==
    /\ crParsed.returned /\ crResult.returned
    /\ crBytes.kind = "json" /\ crBytes.update_state = "Ready" /\ crBytes.version = ""
    /\ crParsed.err = <<"mandatory fields are not available">>

WaitAPIs == {"WaitUntilTasksStopped", "WaitUntilInstanceStatusOk"}

\* a step in which a blocking wait returns without error
WaitReturnsOk ==
    \/ \E i \in DOMAIN wRes \cap DOMAIN wRes' : wRes[i] # "ok" /\ wRes'[i] = "ok"
    \/ /\ Len(calls') = Len(calls) + 1
       /\ calls'[Len(calls')].api \in WaitAPIs
       /\ calls'[Len(calls')].res = "ok"

\* C27: every blocking wait of the run (command executed, tasks stopped,
\* instance status ok) holds a cancellation token of the caller, so that once
\* the caller has cancelled no wait goes on to its remote completion: it
\* returns the cancellation instead.
C27_CancelledWaitsReturn ==
    [][cancelled => ~WaitReturnsOk]_vars

\* the waiters of the call whose own wait call failed
FailedWaiters == {i \in Waiters \cap DOMAIN wRes : wRes[i] = "fail"}

\* C28: under every interleaving a waiter of a sendCommand call enqueues an
\* error and logs the invocation output of its own host if and only if its
\* own wait call failed: when all waiters are done the queue holds as many
\* errors as there are failed waiters and the output was fetched for exactly
\* the hosts of the failed waiters.
C28_WaiterReportsIffOwnWaitFailed ==
    /\ \A i \in Waiters :
          i \in DOMAIN wPc /\ wPc[i] \in {"enqueue", "log"} => wRes[i] = "fail"
    /\ (sCmd # 0 /\ \A i \in Waiters : i \in DOMAIN wPc /\ wPc[i] = "done") =>
          /\ Len(errChan) = Cardinality(FailedWaiters)
          /\ logged = {<<sCmd, sIDs[i]>> : i \in FailedWaiters}

\* the waiters of the call were started
WaitersStarted == sCmd # 0

\* the queue was closed: line 457, reached only through wg.Wait()
ErrChanClosed == WaitersStarted /\ sPc = "returned"

\* what holds of the waiters of a sendCommand call in every state
WaitersAreJoined ==
    /\ WaitersStarted =>
          /\ DOMAIN wPc = Waiters
          /\ waited \subseteq {<<sCmd, sIDs[i]>> : i \in Waiters}
          /\ Len(errChan) <= Len(sIDs)
          /\ \A i \in Waiters : wPc[i] = "enqueue" => Len(errChan) < Len(sIDs)
    /\ ErrChanClosed =>
          /\ \A i \in Waiters : wPc[i] = "done"
          /\ Cardinality(waited) = Len(sIDs)

\* C29: sendCommand starts one waiter per target and waits once for each; it
\* returns, and closes the queue, only after every waiter is done; a waiter
\* that reports its error finds a free slot in the queue; and when every
\* wait call returns sendCommand returns.
C29_WaitersJoinedAndNeverBlocked ==
    []WaitersAreJoined /\ <>(sPc = "returned")

\* three targets, all three waiters reported an error, the queue is full and
\* sendCommand has returned
C29_Witness ==
    /\ ErrChanClosed /\ Len(sIDs) = 3 /\ Len(errChan) = 3
    /\ \A i \in Waiters : wPc[i] = "done" /\ wRes[i] = "fail"

SendRequestFailed ==
    \E j \in 1..Len(calls) : calls[j].api = "SendCommand" /\ calls[j].res = "err"

\* C30: sendCommand never returns a command id together with an error; when
\* the send request fails it returns the empty id and an error that wraps the
\* send error, and no waiter was started; when all waiters fail it returns
\* the empty id and "too many failures while awaiting document execution"
\* wrapping the error of one of the waiters.
C30_NoCommandIDWithError ==
    sPc = "returned" =>
        /\ ~(sRet.id # 0 /\ sRet.err # <<>>)
        /\ SendRequestFailed =>
              /\ sRet.id = 0
              /\ sRet.err = <<"send command failed", "send-err">>
              /\ waited = {} /\ wPc = <<>>
        /\ (Waiters # {} /\ FailedWaiters = Waiters /\ ~SendRequestFailed) =>
              /\ sRet.id = 0
              /\ sRet.err # <<>>
              /\ Head(sRet.err) = "too many failures while awaiting document execution"
              /\ \E i \in Waiters : Tail(sRet.err) = WaitError(i)

\* both waiters of a send to two targets failed and sendCommand returned the
\* empty id with the too-many-failures error
C30_Witness ==
    /\ sPc = "returned" /\ Len(sIDs) = 2 /\ FailedWaiters = Waiters
    /\ sRet.id = 0
    /\ sRet.err # <<>>
    /\ Head(sRet.err) = "too many failures while awaiting document execution"

\* a remote call of updateInstance that failed
FailedCall(c) ==
    \/ c.res = "err"
    \/ c.api = "GetCommandInvocation" /\ c.res # "Success"

CheckStepErrors == {"failed to send check command", "failed to get check command output",
                    "failed to parse command output"}

UpdateReturnedError(heads) ==
    uPc = "u_returned" /\ uRet.err # <<>> /\ Head(uRet.err) \in heads

NoStatusWait == \A k \in 1..Len(calls) : calls[k].api # "WaitUntilInstanceStatusOk"

\* C31: a failure at a step of updateInstance stops the chain at that step
\* and is returned wrapped: no remote call follows a failed one; after a
\* failed check send, check waiter, result fetch or parse neither apply nor
\* reboot is sent; after a failed apply send or apply waiter reboot is not
\* sent; after a failed reboot send the wait for status Ok is not started.
C31_UpdateStopsAtFailedStep ==
    /\ \A k \in 1..Len(calls) :
          (FailedCall(calls[k]) /\ uPc \notin {"verify_send", "verify_ret", "v_returned"}) =>
              /\ k = Len(calls)
              /\ uPc = "u_returned" => Len(uRet.err) >= 2
    /\ UpdateReturnedError(CheckStepErrors) =>
          /\ SentDocs = <<checkDocument>>
          /\ NoStatusWait /\ Len(uRet.err) >= 2
    /\ UpdateReturnedError({"failed to send update apply command"}) =>
          /\ SentDocs = <<checkDocument, applyDocument>>
          /\ NoStatusWait /\ Len(uRet.err) >= 2
    /\ UpdateReturnedError({"failed to send reboot command"}) =>
          /\ SentDocs[Len(SentDocs)] = rebootDocument
          /\ NoStatusWait /\ Len(uRet.err) >= 2

\* the waiter of the apply command failed: check and apply were sent, reboot
\* was not, and the error wraps the waiter's failure
C31_Witness ==
    /\ UpdateReturnedError({"failed to send update apply command"})
    /\ uRet.err[2] = "too many failures while awaiting document execution"
    /\ SentDocs = <<checkDocument, applyDocument>>
    /\ calls[Len(calls)].res = "ok"

\* the hosts whose result could not be fetched or did not parse
SkippedHosts == {k \in 1..Len(pgIn) : pgSeen[k].kind \in {"unfetched", "unparsed"}}

\* the GetCommandInvocation calls filterAvailableUpdates made for input host k
FetchesOf(k) ==
    {j \in 1..Len(calls) : /\ calls[j].api = "GetCommandInvocation"
                           /\ calls[j].ids = <<pgIn[k].instanceID>>}

\* C32: when the result of a host of a sent window cannot be fetched or does
\* not parse, only that host is skipped: filterAvailableUpdates returns no
\* error, the result of every other host of a sent window, of that window and
\* of the later ones, was fetched once, and every host whose result read
\* Available or Ready is returned.
C32_HostFailureSkipsOnlyThatHost ==
    (FilterReturned /\ SkippedHosts # {}) =>
        /\ pgRet.err = Nil
        /\ \A k \in 1..Len(pgIn) :
              /\ pgSeen[k].kind \in {"unsent", "unfetched", "unparsed", "parsed"}
              /\ pgSeen[k].kind # "unsent" => Cardinality(FetchesOf(k)) = 1
        /\ \A k \in Updatable :
              \E c \in 1..Len(pgRet.out) : pgRet.out[c].instanceID = pgIn[k].instanceID

\* the first host's result could not be fetched, the second host of the same
\* window was returned, and the host of the next window was evaluated
C32_Witness ==
    /\ FilterReturned /\ Len(pgIn) = 3 /\ pgRet.err = Nil
    /\ pgSeen[1].kind = "unfetched"
    /\ 2 \in Updatable /\ pgRet.out[1].instanceID = pgIn[2].instanceID
    /\ pgSeen[3].kind = "parsed"

\* the verification sends of the run, and the apply sends that were accepted
VerifySends == {k \in 1..Len(journal) : IsCommand(k) /\ journal[k].doc = checkCommand}
ApplySent(k) == IsCommand(k) /\ journal[k].doc = applyCommand /\ journal[k].res = "ok"

\* C33: the ACTIVE change of a drained candidate is issued after the update
\* step returned and before the verification check is sent: every
\* verification send follows an ACTIVE change that returned the host to
\* ACTIVE, itself after the host's apply command; no ACTIVE change for the
\* host follows the verification; and no outcome of the verification makes
\* the run return an error.
C33_ReactivatedBeforeVerification ==
    \A k \in VerifySends :
        /\ \E j \in 1..(k - 1) :
              /\ Reactivated(j) /\ JHost(j) = JHost(k)
              /\ \E a \in 1..(j - 1) : ApplySent(a) /\ JHost(a) = JHost(k)
        /\ \A m \in (k + 1)..Len(journal) : IsActive(m) => JHost(m) # JHost(k)
        /\ (k = Len(journal) /\ journal[k].res = "ok") => exit # "err"

\* the verification of the first candidate found the update still available,
\* the host had been returned to ACTIVE before it, and the run went on and
\* ended successfully after the second candidate
C33_Witness ==
    /\ pc = "done" /\ exit = "ok"
    /\ \E k \in VerifySends :
          /\ Pos(JHost(k)) = 1 /\ journal[k].res = "ok"
          /\ hostState[JHost(k)] = "ACTIVE"
          /\ \E m \in (k + 1)..Len(journal) : IsVerdict(m) /\ Pos(JHost(m)) = 2
    /\ \E v \in VerifySends : Pos(JHost(v)) = 2
    /\ calls[Len(calls)].api = "GetCommandInvocation" /\ calls[Len(calls)].res = "Success"

\* the positions in the calls made for the current candidate
IsStatusWait(c) == c.api = "WaitUntilInstanceStatusOk"
IsMainActive(c) ==
    c.api = "UpdateContainerInstancesState" /\ c.doc = "ACTIVE" /\ c.by = "_main"
IsVerifySend(c) == c.api = "SendCommand" /\ c.doc = checkCommand
IsApplySend(c)  == c.api = "SendCommand" /\ c.doc = applyCommand

IsUpdateCommand(k) ==
    IsCommand(k) /\ journal[k].doc \in {applyCommand, applyDocument, rebootDocument}

WaitUntilDrainedCalls == {j \in 1..Len(calls) : calls[j].by = "waitUntilDrained"}

\* C35: an apply or reboot command is sent to a host only while the host is
\* drained by this run: its DRAINING change was accepted before, no ACTIVE
\* change for it was issued since, and at the send drainInstance has
\* returned success for it, its wait for the listed tasks did not fail, and
\* the host is DRAINING.
C35_UpdateOnlyWhileDrained ==
    /\ \A k \in 1..Len(journal) :
          IsUpdateCommand(k) =>
              \E d \in 1..(k - 1) :
                  /\ IsDraining(d) /\ journal[d].res = "ok" /\ JHost(d) = JHost(k)
                  /\ \A m \in (d + 1)..(k - 1) : ~(IsActive(m) /\ JHost(m) = JHost(k))
    /\ pc \in {"apply_send", "apply_ret"} =>
          /\ retDrain.returned /\ retDrain.ok /\ retDrain.err = <<>>
          /\ hostState[Cur] = "DRAINING"
          /\ WaitUntilDrainedCalls # {}
          /\ \A j \in WaitUntilDrainedCalls : calls[j].res # "err"

\* the first candidate was not eligible and got no command; the second was
\* drained, waited for its tasks, and the apply command was sent to it
C35_Witness ==
    /\ Len(journal) >= 3
    /\ IsUpdateCommand(Len(journal)) /\ Pos(JHost(Len(journal))) = 2
    /\ \E j \in WaitUntilDrainedCalls : calls[j].api = "WaitUntilTasksStopped"
    /\ \E v \in 1..Len(journal) :
          IsVerdict(v) /\ journal[v].res = "false" /\ Pos(JHost(v)) = 1
    /\ \A k \in 1..Len(journal) : IsCommand(k) => Pos(JHost(k)) = 2

\* the check sends of the call that returned a command id, and the fetches
CheckSends == {j \in 1..Len(calls) : calls[j].api = "SendCommand" /\ calls[j].res = "ok"}
Fetches    == {j \in 1..Len(calls) : calls[j].api = "GetCommandInvocation"}
Targets(j) == {calls[j].ids[i] : i \in 1..Len(calls[j].ids)}

\* the hosts whose result was fetched with the command id of send c
FetchedWith(c) == {calls[f].ids[1] : f \in {g \in Fetches : calls[g].cmd = calls[c].cmd}}

\* C36: filterAvailableUpdates fetches the result of a host only with the
\* command id of the send whose target list held that host; the hosts fetched
\* with a command id are, once the call is done, all the targets of its send
\* (or none, when sendCommand returned an error for the window); and the
\* candidates returned are in the order of the input list.
C36_FetchUsesCommandOfOwnWindow ==
    /\ \A f \in Fetches :
          \E c \in CheckSends :
              /\ c < f
              /\ calls[c].cmd = calls[f].cmd
              /\ calls[f].ids[1] \in Targets(c)
    /\ \A c1, c2 \in CheckSends : c1 # c2 => calls[c1].cmd # calls[c2].cmd
    /\ FilterReturned =>
          /\ \A c \in CheckSends : FetchedWith(c) \in {{}, Targets(c)}
          /\ \A a, b \in 1..Len(pgRet.out) :
                a < b => InputIndex(pgRet.out[a]) < InputIndex(pgRet.out[b])

\* two windows were sent under different command ids, the host of the second
\* window was fetched with the second id, and hosts 1 and 3 were returned
C36_Witness ==
    /\ FilterReturned /\ Len(pgIn) = 3 /\ Cardinality(CheckSends) = 2
    /\ \E f \in Fetches : calls[f].ids = <<pgIn[3].instanceID>> /\ calls[f].cmd = 2
    /\ Len(pgRet.out) = 2
    /\ pgRet.out[1].instanceID = pgIn[1].instanceID
    /\ pgRet.out[2].instanceID = pgIn[3].instanceID

\* a filter has returned
EitherFilterReturned == pgPc \in {"fa_returned", "fb_returned"}

\* C37: given an empty list, filterBottlerocketInstances and
\* filterAvailableUpdates issue no remote call and return an empty result
\* without error.
C37_EmptyInputIsEmptyResult ==
    (EitherFilterReturned /\ Len(pgIn) = 0) =>
        /\ calls = <<>>
        /\ pgRet.out = <<>>
        /\ pgRet.err = <<>>

\* eachPage has returned its callback's error
EachPageFailed == epRet.err # <<>>

\* C38: when the callback fails on some window, eachPage stops at once: the
\* failed window is the last one the callback was invoked for, every window
\* before it succeeded, and eachPage has returned that error to its caller.
C38_EachPageStopsAtFirstError ==
    EachPageFailed =>
        /\ pgPc = "ep_returned"
        /\ epRet = [returned |-> TRUE, count |-> 0, err |-> <<"fn-err">>]
        /\ Len(epWindows) = pgPageCount + 1
        /\ epWindows[Len(epWindows)] = <<pgStart, pgStop>>

\* the callback failed on the second window and input was left for a third
C38_Witness ==
    /\ EachPageFailed
    /\ pgPc = "ep_returned"
    /\ Len(epWindows) = 2
    /\ pgStop < epLen

====
